---- MODULE Spec2Model ----
(***************************************************************************)
(* Driver lifecycle of libsigrok's ASIX SIGMA logic analyzer driver        *)
(* (src/hardware/asix-sigma/api.c) and SCPI multimeter driver              *)
(* (src/hardware/scpi-dmm/api.c).                                          *)
(*                                                                         *)
(* One device is modelled.  Its type tag `dev` is fixed by discovery.  The *)
(* application may open and close the device at any time and, while it is  *)
(* open, call config_set, dev_acquisition_start and dev_acquisition_stop   *)
(* in any order; the event dispatcher may invoke the receive callback      *)
(* whenever a receive source is registered.                                *)
(***************************************************************************)
EXTENDS Integers, Sequences, FiniteSets, TLC

VARIABLES
    dev,            \* device type tag: "sigma" or "dmm"
    with_trigger,   \* build switch ASIX_SIGMA_WITH_TRIGGER
    model,          \* dmm: devc->model, the entry of models[] the identity matched
    opened,         \* transport handle held (ftdi context / scpi connection)
    state,          \* sigma: devc->state.state
    sources,        \* number of receive sources the dispatcher holds for the device
    samplerate,     \* sigma: devc->samplerate, in Hz
    limits,         \* devc->cfg_limits (sigma) / devc->limits (dmm)
    capture_ratio,  \* sigma: devc->capture_ratio
    trigger,        \* sigma: devc->trigger (risingmask, fallingmask)
    acq_limit,      \* sigma: devc->acq_limits holds a timeout
    precision,      \* dmm: devc->precision ("NULL" when absent)
    start_acq_mq,   \* dmm: devc->start_acq_mq
    dmm_func,       \* dmm: the measurement function the instrument is set to
    dmm_range,      \* dmm: the range the instrument is set to (wire token or "AUTO")
    no_opc_command, \* dmm: scpi->no_opc_command, the quirk flag of the connection
    candidates,     \* what the transport enumerates when scan runs
    devices,        \* the device instances the most recent scan returned
    feed,           \* what an observer of the session's datafeed has counted
    io,             \* external effects of the most recent call, in order
    call            \* the most recent call: op, key, val, ret

vars == <<dev, with_trigger, model, opened, state, sources, samplerate, limits,
          capture_ratio, trigger, acq_limit, precision, start_acq_mq,
          dmm_func, dmm_range, no_opc_command, candidates, devices, feed, io, call>>

\* Fields of struct dev_context that configuration and acquisition store.
DeviceContext == <<samplerate, limits, capture_ratio, trigger, acq_limit,
                   precision, start_acq_mq>>

----------------------------------------------------------------------------
\* Return codes (libsigrok SR_OK / SR_ERR_*).

SR_OK == "SR_OK"
SR_ERR == "SR_ERR"
SR_ERR_ARG == "SR_ERR_ARG"
SR_ERR_NA == "SR_ERR_NA"
SR_ERR_IO == "SR_ERR_IO"
SR_ERR_DATA == "SR_ERR_DATA"
SR_ERR_BUG == "SR_ERR_BUG"

\* Failure codes a transport or protocol helper can hand back.
IoResults == {SR_OK, SR_ERR, SR_ERR_IO}

----------------------------------------------------------------------------
\* Unit helpers.

SR_KHZ(n) == n * 1000
SR_MHZ(n) == n * 1000000

\* Bit i of the non-negative integer m.
Bit(m, i) == (m \div (2 ^ i)) % 2

\* Bitwise or of two masks of `ChannelCount` bits.
ChannelCount == 16
MaskOr(a, b) ==
    LET F[i \in 0..ChannelCount] ==
            IF i = ChannelCount THEN 0
            ELSE (IF Bit(a, i) = 1 \/ Bit(b, i) = 1 THEN 2 ^ i ELSE 0) + F[i + 1]
    IN F[0]

\* Truncation of a value passed as a uint8_t argument.
U8(v) == v % 256

----------------------------------------------------------------------------
\* Inputs the environment draws from.

\* Sample rates an application asks for (Hz); 40 MHz is unsupported and gets
\* adjusted, 250 MHz is beyond the hardware, 100 kHz below the slowest rate.
RateRequests == {SR_KHZ(100), SR_MHZ(40), SR_MHZ(100), SR_MHZ(200), SR_MHZ(250)}

\* Capture ratios an application asks for (percent).
RatioRequests == {0, 100, 101}

\* Limit values an application asks for (0 = no limit).
LimitRequests == {0, 1000}

\* Trigger specifications of the session: rising mask, falling mask.
TriggerSpecs == {[risingmask |-> 0, fallingmask |-> 0],
                 [risingmask |-> 4, fallingmask |-> 0],
                 [risingmask |-> 1, fallingmask |-> 4]}

\* Configuration keys an application passes to config_set.
SigmaKeys == {"SR_CONF_SAMPLERATE", "SR_CONF_LIMIT_MSEC", "SR_CONF_LIMIT_SAMPLES",
              "SR_CONF_CAPTURE_RATIO", "SR_CONF_CONN"}

NoCall == [op |-> "scan", key |-> "-", val |-> 0, ret |-> SR_OK]
Call(op, ret) == [op |-> op, key |-> "-", val |-> 0, ret |-> ret]
CallCfg(key, val, ret) == [op |-> "config_set", key |-> key, val |-> val, ret |-> ret]

----------------------------------------------------------------------------
\* Event dispatcher (session): receive sources are keyed by a handle, one
\* handle per device.

\* sr_session_source_add: a handle that is already registered is refused.
session_source_add(n) ==
    IF n > 0 THEN [ret |-> SR_ERR_BUG, n |-> n] ELSE [ret |-> SR_OK, n |-> 1]

\* sr_session_source_remove: drops the source of the handle, if any.
session_source_remove(n) == 0

----------------------------------------------------------------------------
\* ASIX SIGMA: tables and helpers.

\* samplerates[]: the discrete rates the hardware supports, ascending.
samplerates == <<SR_KHZ(200), SR_KHZ(250), SR_KHZ(500), SR_MHZ(1), SR_MHZ(5),
                 SR_MHZ(10), SR_MHZ(25), SR_MHZ(50), SR_MHZ(100), SR_MHZ(200)>>

\* A normalization that takes every rate the hardware can reach as it is.
sigma_normalize_samplerate_AsRequested(want_rate) ==
    IF want_rate > samplerates[Len(samplerates)]
    THEN [ret |-> SR_ERR_ARG, have_rate |-> 0]
    ELSE [ret |-> SR_OK, have_rate |-> want_rate]

\* sigma_normalize_samplerate: the first supported rate that is not below the
\* requested one; a request above the fastest rate is an argument error.
sigma_normalize_samplerate(want_rate) ==
    LET ok == {i \in 1..Len(samplerates) : samplerates[i] >= want_rate}
    IN IF ok = {} THEN [ret |-> SR_ERR_ARG, have_rate |-> 0]
       ELSE [ret |-> SR_OK,
             have_rate |-> samplerates[CHOOSE i \in ok : \A j \in ok : i <= j]]

\* sr_sw_limits_config_set on LIMIT_MSEC / LIMIT_SAMPLES: stores the value.
sr_sw_limits_config_set(lim, key, val) ==
    IF key = "SR_CONF_LIMIT_MSEC" THEN [lim EXCEPT !.limit_msec = val]
    ELSE [lim EXCEPT !.limit_samples = val]

\* sigma_set_acquire_timeout: a timeout is armed iff a sample count or a time
\* limit is configured.
sigma_set_acquire_timeout(lim) == lim.limit_msec # 0 \/ lim.limit_samples # 0

\* Bit positions of the LED select bits in the trigger select register.
LEDSEL0 == 6
LEDSEL1 == 7

Reg(name, val) == <<"reg", name, val>>
Lut == <<"lut", "WRITE_TRIGGER_LUT", 0>>
FeedHeader == <<"feed", "header", 0>>
FeedEnd == <<"feed", "end", 0>>
SourceAdd == <<"source", "add", 0>>
SourceRemove == <<"source", "remove", 0>>
Scpi(code) == <<"scpi", code, 0>>

\* A step of the call that handed back the error `code`.
Failed(step, code) == <<"fail", step, code>>

\* The most start-of-stream markers an observer of the datafeed follows.
MaxMarkers == 2

\* An observer of the session's datafeed counts the start-of-stream markers,
\* the end-of-stream markers, and the end-of-stream markers since the most
\* recent start-of-stream marker.  A session without observer counts nothing.
Unobserved == [observed |-> FALSE, headers |-> 0, ends |-> 0, since |-> 0]
NothingFed == [observed |-> TRUE, headers |-> 0, ends |-> 0, since |-> 0]

\* The observer's counts after the packet `e`.
Fed(f, e) ==
    IF ~f.observed THEN f
    ELSE IF e = FeedHeader
    THEN [f EXCEPT !.headers = f.headers + 1, !.since = 0]
    ELSE IF e = FeedEnd
    THEN [f EXCEPT !.ends = f.ends + 1, !.since = f.since + 1]
    ELSE f

\* The observer's counts after the effects of a call, in order.
RECURSIVE Observe(_, _)
Observe(f, effects) ==
    IF effects = <<>> THEN f
    ELSE Observe(Fed(f, Head(effects)), Tail(effects))

\* The datafeed of a call that sends markers reaches the observer; the
\* observer follows a session up to MaxMarkers markers of either kind.
Observed ==
    /\ feed' = Observe(feed, io')
    /\ feed'.headers <= MaxMarkers
    /\ feed'.ends <= MaxMarkers

\* dev_acquisition_start, lines 437-441: the lowest of pins 0..7 set in either
\* mask; 8 when the loop runs to its end.
TriggerPin(trg) ==
    LET m == MaskOr(trg.risingmask, trg.fallingmask)
        hit == {p \in 0..7 : Bit(m, p) = 1}
    IN IF hit = {} THEN 8 ELSE CHOOSE p \in hit : \A q \in hit : p <= q

\* dev_acquisition_start, lines 432-457: the final trigger select value.
TriggerSelect(rate, trg) ==
    IF rate >= SR_MHZ(100)
    THEN (2 ^ LEDSEL1) + (TriggerPin(trg) % 8)
         + (IF trg.fallingmask # 0 THEN 2 ^ 3 ELSE 0)
    ELSE IF rate <= SR_MHZ(50)
    THEN (2 ^ LEDSEL1) + (2 ^ LEDSEL0)
    ELSE 0

\* Trigger programming writes with the lookup table left out at 50 MHz.
TriggerWrites_LutBelow50(rate, trg) ==
    <<Reg("WRITE_TRIGGER_SELECT2", 32)>>
    \o (IF rate >= SR_MHZ(100) THEN <<Reg("WRITE_TRIGGER_SELECT2", 129)>>
        ELSE IF rate < SR_MHZ(50) THEN <<Lut>>
        ELSE <<>>)

\* dev_acquisition_start, lines 430-457: trigger programming writes.
TriggerWrites(rate, trg) ==
    <<Reg("WRITE_TRIGGER_SELECT2", 32)>>
    \o (IF rate >= SR_MHZ(100) THEN <<Reg("WRITE_TRIGGER_SELECT2", 129)>>
        ELSE IF rate <= SR_MHZ(50) THEN <<Lut>>
        ELSE <<>>)

\* Clock select bytes with the masks of 100 MHz and 200 MHz exchanged.
ClockBytes_MasksExchanged(rate) ==
    LET disabled == IF rate = SR_MHZ(200) THEN 255
                    ELSE IF rate = SR_MHZ(100) THEN 61695
                    ELSE 0
        fraction == IF rate = SR_MHZ(200) \/ rate = SR_MHZ(100) THEN 0
                    ELSE U8(SR_MHZ(50) \div rate - 1)
    IN <<0, fraction, disabled % 256, disabled \div 256>>

\* dev_acquisition_start, lines 471-496: the four clock select bytes
\* (async, fraction, disabled channels low, disabled channels high).
ClockBytes(rate) ==
    LET disabled == IF rate = SR_MHZ(200) THEN 61695      \* 0xf0ff
                    ELSE IF rate = SR_MHZ(100) THEN 255   \* 0x00ff
                    ELSE 0
        fraction == IF rate = SR_MHZ(200) \/ rate = SR_MHZ(100) THEN 0
                    ELSE U8(SR_MHZ(50) \div rate - 1)
    IN <<0, fraction, disabled % 256, disabled \div 256>>

\* dev_acquisition_start, lines 498-500: the post trigger value the call
\* computes, and what the uint8_t parameter of sigma_set_register receives.
PostTriggerValue(ratio) == (ratio * 255) \div 100

\* A post trigger value scaled by 256 instead of 255.
PostTrigger_Scale256(ratio) == U8((ratio * 256) \div 100)

PostTrigger(ratio) == U8(PostTriggerValue(ratio))

\* dev_acquisition_start, lines 502-507: the mode register bits.
ModeBits(trig_build) ==
    {"WMR_TRGRES", "WMR_SDRAMWRITEEN"} \cup (IF trig_build THEN {"WMR_TRGEN"} ELSE {})

\* A start that arms the mode register before the clock select and post
\* trigger registers are written.
SigmaStartEffects_ArmedEarly(rate, trg, ratio, trig_build) ==
    TriggerWrites(rate, trg)
    \o <<Reg("WRITE_TRIGGER_OPTION", 0),
         Reg("WRITE_TRIGGER_SELECT2", TriggerSelect(rate, trg)),
         Reg("WRITE_MODE", ModeBits(trig_build)),
         Reg("WRITE_CLOCK_SELECT", ClockBytes(rate)),
         Reg("WRITE_POST_TRIGGER", PostTrigger(ratio)),
         FeedHeader, SourceAdd>>

\* dev_acquisition_start, lines 429-512: everything the call does once the
\* trigger has been converted, in order.
SigmaStartEffects(rate, trg, ratio, trig_build) ==
    TriggerWrites(rate, trg)
    \o <<Reg("WRITE_TRIGGER_OPTION", 0),
         Reg("WRITE_TRIGGER_SELECT2", TriggerSelect(rate, trg)),
         Reg("WRITE_CLOCK_SELECT", ClockBytes(rate)),
         Reg("WRITE_POST_TRIGGER", PostTrigger(ratio)),
         Reg("WRITE_MODE", ModeBits(trig_build)),
         FeedHeader, SourceAdd>>

----------------------------------------------------------------------------
\* ASIX SIGMA: driver entry points.

IsSigma == dev = "sigma"
dmmVars == <<precision, start_acq_mq, dmm_func, dmm_range>>
buildVars == <<dev, with_trigger, model, no_opc_command, candidates, devices>>

\* scan, lines 229-240: the device context of a freshly discovered device.
SigmaScanned ==
    /\ state = "SIGMA_IDLE"
    /\ samplerate = samplerates[1]
    /\ limits = [limit_msec |-> 0, limit_samples |-> 0]
    /\ capture_ratio = 50
    /\ trigger = [risingmask |-> 0, fallingmask |-> 0]
    /\ acq_limit = FALSE

\* dev_open: ftdi_init, then ftdi_usb_open_desc_index; either may fail.
SigmaDevOpen ==
    /\ IsSigma
    /\ \E ok \in BOOLEAN :
         /\ opened' = (opened \/ ok)
         /\ call' = Call("dev_open", IF ok THEN SR_OK ELSE SR_ERR_IO)
    /\ io' = <<>>
    /\ UNCHANGED <<buildVars, feed, dmmVars, state, sources, samplerate, limits,
                   capture_ratio, trigger, acq_limit>>

\* dev_close: ftdi_usb_close (its result is the return value), ftdi_deinit.
SigmaDevClose ==
    /\ IsSigma
    /\ \E ok \in BOOLEAN :
         call' = Call("dev_close", IF ok THEN SR_OK ELSE SR_ERR)
    /\ opened' = FALSE
    /\ io' = <<>>
    /\ UNCHANGED <<buildVars, feed, dmmVars, state, sources, samplerate, limits,
                   capture_ratio, trigger, acq_limit>>

\* A config_set that stores the normalized rate before it looks at the result.
SigmaConfigSetResult_StoreFirst(key, data, trig_build) ==
    IF key = "SR_CONF_SAMPLERATE" THEN
        [ret |-> sigma_normalize_samplerate(data).ret,
         samplerate |-> sigma_normalize_samplerate(data).have_rate,
         limits |-> limits, capture_ratio |-> capture_ratio]
    ELSE
        [ret |-> SR_ERR_NA, samplerate |-> samplerate, limits |-> limits,
         capture_ratio |-> capture_ratio]

\* A config_set that stores the requested rate as it was asked for.
SigmaConfigSetResult_StoreRequest(key, data, trig_build) ==
    IF key = "SR_CONF_SAMPLERATE" THEN
        [ret |-> sigma_normalize_samplerate(data).ret,
         samplerate |-> IF sigma_normalize_samplerate(data).ret = SR_OK
                        THEN data ELSE samplerate,
         limits |-> limits, capture_ratio |-> capture_ratio]
    ELSE
        [ret |-> SR_ERR_NA, samplerate |-> samplerate, limits |-> limits,
         capture_ratio |-> capture_ratio]

\* config_set: the value the switch stores for (key, data), and its result.
SigmaConfigSetResult(key, data, trig_build) ==
    IF key = "SR_CONF_SAMPLERATE" THEN
        LET n == sigma_normalize_samplerate(data)
        IN [ret |-> n.ret,
            samplerate |-> IF n.ret = SR_OK THEN n.have_rate ELSE samplerate,
            limits |-> limits, capture_ratio |-> capture_ratio]
    ELSE IF key \in {"SR_CONF_LIMIT_MSEC", "SR_CONF_LIMIT_SAMPLES"} THEN
        [ret |-> SR_OK, samplerate |-> samplerate,
         limits |-> sr_sw_limits_config_set(limits, key, data),
         capture_ratio |-> capture_ratio]
    ELSE IF key = "SR_CONF_CAPTURE_RATIO" /\ trig_build THEN
        [ret |-> SR_OK, samplerate |-> samplerate, limits |-> limits,
         capture_ratio |-> data]
    ELSE
        [ret |-> SR_ERR_NA, samplerate |-> samplerate, limits |-> limits,
         capture_ratio |-> capture_ratio]

\* Values an application passes with a key.
SigmaValues(key) ==
    IF key = "SR_CONF_SAMPLERATE" THEN RateRequests
    ELSE IF key = "SR_CONF_CAPTURE_RATIO" THEN RatioRequests
    ELSE IF key = "SR_CONF_CONN" THEN {0}
    ELSE LimitRequests

SigmaConfigSet ==
    /\ IsSigma
    /\ opened
    /\ \E key \in SigmaKeys : \E data \in SigmaValues(key) :
         LET r == SigmaConfigSetResult(key, data, with_trigger)
         IN /\ samplerate' = r.samplerate
            /\ limits' = r.limits
            /\ capture_ratio' = r.capture_ratio
            /\ call' = CallCfg(key, data, r.ret)
    /\ io' = <<>>
    /\ UNCHANGED <<buildVars, feed, dmmVars, opened, state, sources, trigger, acq_limit>>

\* devopts: the capability table, key and the operations granted for it.
devopts(trig_build) ==
    {<<"SR_CONF_LIMIT_MSEC", {"GET", "SET"}>>,
     <<"SR_CONF_LIMIT_SAMPLES", {"GET", "SET"}>>,
     <<"SR_CONF_CONN", {"GET"}>>,
     <<"SR_CONF_SAMPLERATE", {"GET", "SET", "LIST"}>>}
    \cup (IF trig_build
          THEN {<<"SR_CONF_TRIGGER_MATCH", {"LIST"}>>,
                <<"SR_CONF_CAPTURE_RATIO", {"GET", "SET"}>>}
          ELSE {})

\* Keys an application passes to config_get and config_list.
SigmaQueryKeys == SigmaKeys \cup {"SR_CONF_TRIGGER_MATCH", "SR_CONF_DEVICE_OPTIONS",
                                  "SR_CONF_CONTINUOUS"}

\* config_get: result and value for `key`.
SigmaConfigGetResult(key, trig_build) ==
    IF key = "SR_CONF_CONN" THEN [ret |-> SR_OK, val |-> "connection_id"]
    ELSE IF key = "SR_CONF_SAMPLERATE" THEN [ret |-> SR_OK, val |-> samplerate]
    ELSE IF key = "SR_CONF_LIMIT_MSEC" THEN [ret |-> SR_OK, val |-> limits.limit_msec]
    ELSE IF key = "SR_CONF_LIMIT_SAMPLES"
    THEN [ret |-> SR_OK, val |-> limits.limit_samples]
    ELSE IF key = "SR_CONF_CAPTURE_RATIO" /\ trig_build
    THEN [ret |-> SR_OK, val |-> capture_ratio]
    ELSE [ret |-> SR_ERR_NA, val |-> "-"]

SigmaConfigGet ==
    /\ IsSigma
    /\ opened
    /\ \E key \in SigmaQueryKeys :
         LET r == SigmaConfigGetResult(key, with_trigger)
         IN call' = [op |-> "config_get", key |-> key, val |-> r.val, ret |-> r.ret]
    /\ io' = <<>>
    /\ UNCHANGED <<buildVars, feed, dmmVars, opened, state, sources, samplerate, limits,
                   capture_ratio, trigger, acq_limit>>

\* config_list: result and value for `key`.
SigmaConfigListResult(key, trig_build) ==
    IF key = "SR_CONF_DEVICE_OPTIONS" THEN [ret |-> SR_OK, val |-> devopts(trig_build)]
    ELSE IF key = "SR_CONF_SAMPLERATE" THEN [ret |-> SR_OK, val |-> samplerates]
    ELSE IF key = "SR_CONF_TRIGGER_MATCH" /\ trig_build
    THEN [ret |-> SR_OK, val |-> "trigger_matches"]
    ELSE [ret |-> SR_ERR_NA, val |-> "-"]

SigmaConfigList ==
    /\ IsSigma
    /\ opened
    /\ \E key \in SigmaQueryKeys :
         LET r == SigmaConfigListResult(key, with_trigger)
         IN call' = [op |-> "config_list", key |-> key, val |-> r.val, ret |-> r.ret]
    /\ io' = <<>>
    /\ UNCHANGED <<buildVars, feed, dmmVars, opened, state, sources, samplerate, limits,
                   capture_ratio, trigger, acq_limit>>

\* dev_acquisition_start, lines 417-422: sigma_set_samplerate or
\* sigma_set_acquire_timeout fails.
SigmaStartRateFails ==
    /\ \E e \in IoResults \ {SR_OK} :
         /\ call' = Call("dev_acquisition_start", e)
         /\ io' = <<Failed("sigma_set_samplerate", e)>>
    /\ UNCHANGED <<state, sources, trigger, acq_limit>>

\* dev_acquisition_start, lines 424-427: sigma_convert_trigger fails, after
\* the acquisition timeout was set up; the trigger masks were cleared.
SigmaStartTriggerFails ==
    /\ call' = Call("dev_acquisition_start", SR_ERR)
    /\ acq_limit' = sigma_set_acquire_timeout(limits)
    /\ trigger' = [risingmask |-> 0, fallingmask |-> 0]
    /\ io' = <<Failed("sigma_convert_trigger", SR_ERR)>>
    /\ UNCHANGED <<state, sources>>

\* A start that arms the hardware but never adds the capture source.
SigmaStartRuns_NoSource(trg) ==
    /\ acq_limit' = sigma_set_acquire_timeout(limits)
    /\ trigger' = trg
    /\ io' = SubSeq(SigmaStartEffects(samplerate, trg, capture_ratio, with_trigger),
                    1, Len(SigmaStartEffects(samplerate, trg, capture_ratio,
                                             with_trigger)) - 1)
    /\ sources' = sources
    /\ state' = "SIGMA_CAPTURE"
    /\ call' = Call("dev_acquisition_start", SR_OK)

\* dev_acquisition_start, lines 429-512: the results the call drops.  `wr` is
\* the result of the write of the mode register, `add` that of adding the
\* capture source.
SigmaStartFailures(wr, add) ==
    (IF wr = SR_OK THEN <<>> ELSE <<Failed("WRITE_MODE", wr)>>)
    \o (IF add = SR_OK THEN <<>> ELSE <<Failed("sr_session_source_add", add)>>)

\* dev_acquisition_start, lines 429-516: the registers are written, the
\* header is sent, the source is added and the state becomes SIGMA_CAPTURE.
SigmaStartRuns(trg) ==
    /\ acq_limit' = sigma_set_acquire_timeout(limits)
    /\ trigger' = trg
    /\ \E wr \in {SR_OK, SR_ERR_IO} :
         io' = SigmaStartEffects(samplerate, trg, capture_ratio, with_trigger)
               \o SigmaStartFailures(wr, session_source_add(sources).ret)
    /\ sources' = session_source_add(sources).n
    /\ state' = "SIGMA_CAPTURE"
    /\ call' = Call("dev_acquisition_start", SR_OK)

\* dev_acquisition_start, lines 394-517; `specs` are the trigger
\* specifications the session may hold.
SigmaAcquisitionStartOf(specs) ==
    /\ IsSigma
    /\ opened
    /\ \/ SigmaStartRateFails
       \/ SigmaStartTriggerFails
       \/ \E trg \in specs : SigmaStartRuns(trg)
    /\ UNCHANGED <<buildVars, dmmVars, opened, samplerate, limits, capture_ratio>>
    /\ Observed

SigmaAcquisitionStart == SigmaAcquisitionStartOf(TriggerSpecs)

\* A stop that always takes the immediate path (no deferred stop).
SigmaStopResult_Immediate(st, n) ==
    [state |-> "SIGMA_IDLE", sources |-> session_source_remove(n),
     io |-> <<SourceRemove>>]

\* A stop that leaves the receive source registered when it goes to idle.
SigmaStopResult_KeepsSource(st, n) ==
    IF st = "SIGMA_CAPTURE"
    THEN [state |-> "SIGMA_STOPPING", sources |-> n, io |-> <<>>]
    ELSE [state |-> "SIGMA_IDLE", sources |-> n, io |-> <<>>]

\* dev_acquisition_stop, lines 532-537.
SigmaStopResult(st, n) ==
    IF st = "SIGMA_CAPTURE"
    THEN [state |-> "SIGMA_STOPPING", sources |-> n, io |-> <<>>]
    ELSE [state |-> "SIGMA_IDLE", sources |-> session_source_remove(n),
          io |-> <<SourceRemove>>]

SigmaAcquisitionStop ==
    /\ IsSigma
    /\ opened
    /\ LET r == SigmaStopResult(state, sources)
       IN /\ state' = r.state
          /\ sources' = r.sources
          /\ io' = r.io
    /\ call' = Call("dev_acquisition_stop", SR_OK)
    /\ UNCHANGED <<buildVars, feed, dmmVars, opened, samplerate, limits, capture_ratio,
                   trigger, acq_limit>>

\* sigma_receive_data: the receive callback.  It acts when the state is
\* SIGMA_STOPPING, or SIGMA_CAPTURE with the armed timeout expired: the
\* samples are downloaded (drain), the hardware is disarmed, the end marker
\* is sent, and the callback deregisters itself with the state SIGMA_IDLE.
SigmaDrain ==
    /\ state' = "SIGMA_IDLE"
    /\ sources' = session_source_remove(sources)
    /\ io' = <<<<"drain", "download", 0>>, Reg("WRITE_MODE", {"WMR_FORCESTOP"}),
               FeedEnd, SourceRemove>>
    /\ call' = Call("receive_data", "drained")

SigmaIdlePoll ==
    /\ io' = <<>>
    /\ call' = Call("receive_data", "polled")
    /\ UNCHANGED <<state, sources>>

SigmaReceiveData ==
    /\ IsSigma
    /\ sources > 0
    /\ \/ state = "SIGMA_STOPPING" /\ SigmaDrain
       \/ state = "SIGMA_CAPTURE" /\ acq_limit /\ SigmaDrain
       \/ state # "SIGMA_STOPPING" /\ SigmaIdlePoll
    /\ UNCHANGED <<buildVars, dmmVars, opened, samplerate, limits, capture_ratio,
                   trigger, acq_limit>>
    /\ Observed

----------------------------------------------------------------------------
\* SCPI DMM: command sets and models.

cmdset_agilent == <<
    <<"DMM_CMD_SETUP_REMOTE", "\n">>,
    <<"DMM_CMD_SETUP_FUNC", "CONF:%s">>,
    <<"DMM_CMD_QUERY_FUNC", "CONF?">>,
    <<"DMM_CMD_START_ACQ", "MEAS">>,
    <<"DMM_CMD_STOP_ACQ", "ABORT">>,
    <<"DMM_CMD_QUERY_VALUE", "READ?">>,
    <<"DMM_CMD_QUERY_PREC", "CONF?">> >>

cmdset_hp == <<
    <<"DMM_CMD_SETUP_REMOTE", "\n">>,
    <<"DMM_CMD_SETUP_FUNC", "CONF:%s">>,
    <<"DMM_CMD_QUERY_FUNC", "CONF?">>,
    <<"DMM_CMD_START_ACQ", "INIT">>,
    <<"DMM_CMD_STOP_ACQ", "ABORT">>,
    <<"DMM_CMD_QUERY_VALUE", "READ?">>,
    <<"DMM_CMD_QUERY_PREC", "CONF?">> >>

cmdset_gwinstek == <<
    <<"DMM_CMD_SETUP_REMOTE", "SYST:REM">>,
    <<"DMM_CMD_SETUP_LOCAL", "SYST:LOC">>,
    <<"DMM_CMD_SETUP_FUNC", "CONF:%s">>,
    <<"DMM_CMD_QUERY_FUNC", "CONF:STAT:FUNC?">>,
    <<"DMM_CMD_START_ACQ", "*CLS;SYST:REM">>,
    <<"DMM_CMD_QUERY_VALUE", "VAL1?">>,
    <<"DMM_CMD_QUERY_PREC", "SENS:DET:RATE?">> >>

cmdset_gwinstek_906x == <<
    <<"DMM_CMD_SETUP_REMOTE", "SYST:REM">>,
    <<"DMM_CMD_SETUP_LOCAL", "SYST:LOC">>,
    <<"DMM_CMD_SETUP_FUNC", "CONF:%s">>,
    <<"DMM_CMD_QUERY_FUNC", "CONF?">>,
    <<"DMM_CMD_START_ACQ", "INIT">>,
    <<"DMM_CMD_STOP_ACQ", "ABORT">>,
    <<"DMM_CMD_QUERY_VALUE", "VAL1?">>,
    <<"DMM_CMD_QUERY_PREC", "SENS:DET:RATE?">> >>

cmdset_owon == <<
    <<"DMM_CMD_SETUP_REMOTE", "SYST:REM">>,
    <<"DMM_CMD_SETUP_LOCAL", "SYST:LOC">>,
    <<"DMM_CMD_SETUP_FUNC", "CONF:%s">>,
    <<"DMM_CMD_QUERY_FUNC", "FUNC?">>,
    <<"DMM_CMD_QUERY_VALUE", "MEAS1?">> >>

cmdset_keithley == <<
    <<"DMM_CMD_SETUP_REMOTE", "\n">>,
    <<"DMM_CMD_SETUP_FUNC", ":FUNC \"%s\"">>,
    <<"DMM_CMD_QUERY_FUNC", "FUNC?">>,
    <<"DMM_CMD_QUERY_VALUE", "READ?">>,
    <<"DMM_CMD_QUERY_RANGE", "%s:RANGE?">>,
    <<"DMM_CMD_QUERY_RANGE_AUTO", "%s:RANGE:AUTO?">>,
    <<"DMM_CMD_SETUP_RANGE", "%s:RANGE %s">>,
    <<"DMM_CMD_SETUP_RANGE_AUTO", "%s:RANGE:AUTO 1">>,
    <<"DMM_CMD_SETUP_NPLC", "%s:NPLC %2.4f">>,
    <<"DMM_CMD_QUERY_NPLC", "%s:NPLC?">>,
    <<"DMM_CMD_SETUP_AVG_COUNT", "%s:AVER:COUN %d">>,
    <<"DMM_CMD_QUERY_AVG_COUNT", "%s:AVER:COUN?">>,
    <<"DMM_CMD_SETUP_AVG", "%s:AVER %d">>,
    <<"DMM_CMD_QUERY_AVG", "%s:AVER?">> >>

\* devopts_generic / devopts_keithley: the capability tables, key and the
\* operations granted for it.
devopts_generic == {
    <<"SR_CONF_CONTINUOUS", {}>>,
    <<"SR_CONF_CONN", {"GET"}>>,
    <<"SR_CONF_LIMIT_SAMPLES", {"GET", "SET"}>>,
    <<"SR_CONF_LIMIT_MSEC", {"GET", "SET"}>>,
    <<"SR_CONF_MEASURED_QUANTITY", {"GET", "SET", "LIST"}>> }

devopts_keithley == {
    <<"SR_CONF_CONTINUOUS", {}>>,
    <<"SR_CONF_CONN", {"GET"}>>,
    <<"SR_CONF_LIMIT_SAMPLES", {"GET", "SET"}>>,
    <<"SR_CONF_LIMIT_MSEC", {"GET", "SET"}>>,
    <<"SR_CONF_MEASURED_QUANTITY", {"GET", "SET", "LIST"}>>,
    <<"SR_CONF_RANGE", {"GET", "SET", "LIST"}>>,
    <<"SR_CONF_AVERAGING", {"GET", "SET"}>>,
    <<"SR_CONF_AVG_SAMPLES", {"GET", "SET"}>>,
    <<"SR_CONF_ADC_POWERLINE_CYCLES", {"GET", "SET"}>> }

\* mqopts_*: measured quantity, flags, function name to set, function name
\* the instrument answers with.
mqopts_agilent_34405a == <<
    <<"SR_MQ_VOLTAGE", "SR_MQFLAG_DC", "VOLT:DC", "VOLT ">>,
    <<"SR_MQ_VOLTAGE", "SR_MQFLAG_AC", "VOLT:AC", "VOLT:AC ">>,
    <<"SR_MQ_CURRENT", "SR_MQFLAG_DC", "CURR:DC", "CURR ">>,
    <<"SR_MQ_CURRENT", "SR_MQFLAG_AC", "CURR:AC", "CURR:AC ">>,
    <<"SR_MQ_RESISTANCE", "0", "RES", "RES ">>,
    <<"SR_MQ_CONTINUITY", "0", "CONT", "CONT">>,
    <<"SR_MQ_CAPACITANCE", "0", "CAP", "CAP ">>,
    <<"SR_MQ_VOLTAGE", "SR_MQFLAG_DC|SR_MQFLAG_DIODE", "DIOD", "DIOD">>,
    <<"SR_MQ_TEMPERATURE", "0", "TEMP", "TEMP ">>,
    <<"SR_MQ_FREQUENCY", "0", "FREQ", "FREQ ">> >>

mqopts_agilent_34401a == <<
    <<"SR_MQ_VOLTAGE", "SR_MQFLAG_DC", "VOLT:DC", "VOLT ">>,
    <<"SR_MQ_VOLTAGE", "SR_MQFLAG_AC", "VOLT:AC", "VOLT:AC ">>,
    <<"SR_MQ_CURRENT", "SR_MQFLAG_DC", "CURR:DC", "CURR ">>,
    <<"SR_MQ_CURRENT", "SR_MQFLAG_AC", "CURR:AC", "CURR:AC ">>,
    <<"SR_MQ_RESISTANCE", "0", "RES", "RES ">>,
    <<"SR_MQ_RESISTANCE", "SR_MQFLAG_FOUR_WIRE", "FRES", "FRES ">>,
    <<"SR_MQ_CONTINUITY", "0", "CONT", "CONT">>,
    <<"SR_MQ_VOLTAGE", "SR_MQFLAG_DC|SR_MQFLAG_DIODE", "DIOD", "DIOD">>,
    <<"SR_MQ_FREQUENCY", "0", "FREQ", "FREQ ">>,
    <<"SR_MQ_TIME", "0", "PER", "PER ">> >>

mqopts_gwinstek_gdm8200a == <<
    <<"SR_MQ_VOLTAGE", "SR_MQFLAG_DC", "VOLT:DC", "01">>,
    <<"SR_MQ_VOLTAGE", "SR_MQFLAG_AC", "VOLT:AC", "02">>,
    <<"SR_MQ_CURRENT", "SR_MQFLAG_DC", "CURR:DC", "03">>,
    <<"SR_MQ_CURRENT", "SR_MQFLAG_AC", "CURR:AC", "04">>,
    <<"SR_MQ_CURRENT", "SR_MQFLAG_DC", "CURR:DC", "05">>,
    <<"SR_MQ_CURRENT", "SR_MQFLAG_AC", "CURR:AC", "06">>,
    <<"SR_MQ_RESISTANCE", "0", "RES", "07">>,
    <<"SR_MQ_RESISTANCE", "SR_MQFLAG_FOUR_WIRE", "FRES", "16">>,
    <<"SR_MQ_CONTINUITY", "0", "CONT", "13">>,
    <<"SR_MQ_VOLTAGE", "SR_MQFLAG_DC|SR_MQFLAG_DIODE", "DIOD", "17">>,
    <<"SR_MQ_TEMPERATURE", "0", "TEMP", "09">>,
    <<"SR_MQ_TEMPERATURE", "0", "TEMP", "15">>,
    <<"SR_MQ_FREQUENCY", "0", "FREQ", "08">>,
    <<"SR_MQ_TIME", "0", "PER", "14">> >>

mqopts_gwinstek_gdm906x == <<
    <<"SR_MQ_VOLTAGE", "SR_MQFLAG_DC", "VOLT:DC", "VOLT ">>,
    <<"SR_MQ_VOLTAGE", "SR_MQFLAG_AC", "VOLT:AC", "VOLT:AC">>,
    <<"SR_MQ_CURRENT", "SR_MQFLAG_DC", "CURR:DC", "CURR ">>,
    <<"SR_MQ_CURRENT", "SR_MQFLAG_AC", "CURR:AC", "CURR:AC">>,
    <<"SR_MQ_RESISTANCE", "0", "RES", "RES">>,
    <<"SR_MQ_RESISTANCE", "SR_MQFLAG_FOUR_WIRE", "FRES", "FRES">>,
    <<"SR_MQ_CONTINUITY", "0", "CONT", "CONT">>,
    <<"SR_MQ_VOLTAGE", "SR_MQFLAG_DC|SR_MQFLAG_DIODE", "DIOD", "DIOD">>,
    <<"SR_MQ_TEMPERATURE", "0", "TEMP", "TEMP">>,
    <<"SR_MQ_FREQUENCY", "0", "FREQ", "FREQ">>,
    <<"SR_MQ_TIME", "0", "PER", "PER">>,
    <<"SR_MQ_CAPACITANCE", "0", "CAP", "CAP">> >>

mqopts_owon_xdm2041 == <<
    <<"SR_MQ_VOLTAGE", "SR_MQFLAG_AC", "VOLT:AC", "VOLT AC">>,
    <<"SR_MQ_VOLTAGE", "SR_MQFLAG_DC", "VOLT:DC", "VOLT">>,
    <<"SR_MQ_CURRENT", "SR_MQFLAG_AC", "CURR:AC", "CURR AC">>,
    <<"SR_MQ_CURRENT", "SR_MQFLAG_DC", "CURR:DC", "CURR">>,
    <<"SR_MQ_RESISTANCE", "0", "RES", "RES">>,
    <<"SR_MQ_RESISTANCE", "SR_MQFLAG_FOUR_WIRE", "FRES", "FRES">>,
    <<"SR_MQ_CONTINUITY", "0", "CONT", "CONT">>,
    <<"SR_MQ_VOLTAGE", "SR_MQFLAG_DC|SR_MQFLAG_DIODE", "DIOD", "DIOD">>,
    <<"SR_MQ_TEMPERATURE", "0", "TEMP", "TEMP">>,
    <<"SR_MQ_FREQUENCY", "0", "FREQ", "FREQ">>,
    <<"SR_MQ_CAPACITANCE", "0", "CAP", "CAP">> >>

mqopts_keithley_dmm6500 == <<
    <<"SR_MQ_VOLTAGE", "SR_MQFLAG_DC", "VOLT:DC", "VOLT:DC">>,
    <<"SR_MQ_VOLTAGE", "SR_MQFLAG_AC", "VOLT:AC", "VOLT:AC">>,
    <<"SR_MQ_CURRENT", "SR_MQFLAG_DC", "CURR:DC", "CURR:DC">>,
    <<"SR_MQ_CURRENT", "SR_MQFLAG_AC", "CURR:AC", "CURR:AC">>,
    <<"SR_MQ_RESISTANCE", "0", "RES", "RES">>,
    <<"SR_MQ_RESISTANCE", "SR_MQFLAG_FOUR_WIRE", "FRES", "FRES">>,
    <<"SR_MQ_CONTINUITY", "0", "CONT", "CONT">>,
    <<"SR_MQ_VOLTAGE", "SR_MQFLAG_DC|SR_MQFLAG_DIODE", "DIOD", "DIOD">>,
    <<"SR_MQ_TEMPERATURE", "0", "TEMP", "TEMP">>,
    <<"SR_MQ_FREQUENCY", "0", "FREQ", "FREQ">>,
    <<"SR_MQ_TIME", "0", "PER", "PER">>,
    <<"SR_MQ_CAPACITANCE", "0", "CAP", "CAP">> >>

\* rangeopts_keithley_dmm6500: measured quantity, flags, wire token (empty for
\* a fixed range), label.
rangeopts_keithley_dmm6500 == <<
    <<"SR_MQ_VOLTAGE", "SR_MQFLAG_DC", "AUTO", "Auto">>,
    <<"SR_MQ_VOLTAGE", "SR_MQFLAG_DC", "0.1", "100mV">>,
    <<"SR_MQ_VOLTAGE", "SR_MQFLAG_DC", "1", "1V">>,
    <<"SR_MQ_VOLTAGE", "SR_MQFLAG_DC", "10", "10V">>,
    <<"SR_MQ_VOLTAGE", "SR_MQFLAG_DC", "100", "100V">>,
    <<"SR_MQ_VOLTAGE", "SR_MQFLAG_DC", "1000", "1000V">>,
    <<"SR_MQ_VOLTAGE", "SR_MQFLAG_AC", "AUTO", "Auto">>,
    <<"SR_MQ_VOLTAGE", "SR_MQFLAG_AC", "0.1", "100mV">>,
    <<"SR_MQ_VOLTAGE", "SR_MQFLAG_AC", "1", "1V">>,
    <<"SR_MQ_VOLTAGE", "SR_MQFLAG_AC", "10", "10V">>,
    <<"SR_MQ_VOLTAGE", "SR_MQFLAG_AC", "100", "100V">>,
    <<"SR_MQ_VOLTAGE", "SR_MQFLAG_AC", "750", "750V">>,
    <<"SR_MQ_CURRENT", "SR_MQFLAG_DC", "AUTO", "Auto">>,
    <<"SR_MQ_CURRENT", "SR_MQFLAG_DC", "1E-05", "10uA">>,
    <<"SR_MQ_CURRENT", "SR_MQFLAG_DC", "0.0001", "100uA">>,
    <<"SR_MQ_CURRENT", "SR_MQFLAG_DC", "0.001", "1mA">>,
    <<"SR_MQ_CURRENT", "SR_MQFLAG_DC", "0.01", "10mA">>,
    <<"SR_MQ_CURRENT", "SR_MQFLAG_DC", "0.1", "100mA">>,
    <<"SR_MQ_CURRENT", "SR_MQFLAG_DC", "1", "1A">>,
    <<"SR_MQ_CURRENT", "SR_MQFLAG_DC", "3", "3A">>,
    <<"SR_MQ_CURRENT", "SR_MQFLAG_DC", "10", "10A">>,
    <<"SR_MQ_CURRENT", "SR_MQFLAG_AC", "AUTO", "Auto">>,
    <<"SR_MQ_CURRENT", "SR_MQFLAG_AC", "0.001", "1mA">>,
    <<"SR_MQ_CURRENT", "SR_MQFLAG_AC", "0.01", "10mA">>,
    <<"SR_MQ_CURRENT", "SR_MQFLAG_AC", "0.1", "100mA">>,
    <<"SR_MQ_CURRENT", "SR_MQFLAG_AC", "1", "1A">>,
    <<"SR_MQ_CURRENT", "SR_MQFLAG_AC", "3", "3A">>,
    <<"SR_MQ_RESISTANCE", "0", "AUTO", "Auto">>,
    <<"SR_MQ_RESISTANCE", "0", "10", "10">>,
    <<"SR_MQ_RESISTANCE", "0", "100", "100">>,
    <<"SR_MQ_RESISTANCE", "0", "1000", "1k">>,
    <<"SR_MQ_RESISTANCE", "0", "10000", "10k">>,
    <<"SR_MQ_RESISTANCE", "0", "100000", "100k">>,
    <<"SR_MQ_RESISTANCE", "0", "1E+06", "1M">>,
    <<"SR_MQ_RESISTANCE", "0", "1E+07", "10M">>,
    <<"SR_MQ_RESISTANCE", "0", "1E+08", "100M">>,
    <<"SR_MQ_RESISTANCE", "SR_MQFLAG_FOUR_WIRE", "AUTO", "Auto">>,
    <<"SR_MQ_RESISTANCE", "SR_MQFLAG_FOUR_WIRE", "1", "1">>,
    <<"SR_MQ_RESISTANCE", "SR_MQFLAG_FOUR_WIRE", "10", "10">>,
    <<"SR_MQ_RESISTANCE", "SR_MQFLAG_FOUR_WIRE", "100", "100">>,
    <<"SR_MQ_RESISTANCE", "SR_MQFLAG_FOUR_WIRE", "1000", "1k">>,
    <<"SR_MQ_RESISTANCE", "SR_MQFLAG_FOUR_WIRE", "10000", "10k">>,
    <<"SR_MQ_RESISTANCE", "SR_MQFLAG_FOUR_WIRE", "100000", "100k">>,
    <<"SR_MQ_RESISTANCE", "SR_MQFLAG_FOUR_WIRE", "1E+06", "1M">>,
    <<"SR_MQ_RESISTANCE", "SR_MQFLAG_FOUR_WIRE", "1E+07", "10M">>,
    <<"SR_MQ_RESISTANCE", "SR_MQFLAG_FOUR_WIRE", "1E+08", "100M">>,
    <<"SR_MQ_VOLTAGE", "SR_MQFLAG_DC|SR_MQFLAG_DIODE", "", "10V">>,
    <<"SR_MQ_CAPACITANCE", "0", "AUTO", "Auto">>,
    <<"SR_MQ_CAPACITANCE", "0", "1E-09", "1nF">>,
    <<"SR_MQ_CAPACITANCE", "0", "1E-08", "10nF">>,
    <<"SR_MQ_CAPACITANCE", "0", "1E-07", "100nF">>,
    <<"SR_MQ_CAPACITANCE", "0", "1E-06", "1uF">>,
    <<"SR_MQ_CAPACITANCE", "0", "1E-05", "10uF">>,
    <<"SR_MQ_CAPACITANCE", "0", "0.0001", "100uF">>,
    <<"SR_MQ_CONTINUITY", "0", "", "1k">>,
    <<"SR_MQ_TEMPERATURE", "0", "", "Auto">>,
    <<"SR_MQ_FREQUENCY", "0", "", "Auto">>,
    <<"SR_MQ_TIME", "0", "", "Auto">> >>

\* nplcopts_keithley_dmm6500: measured quantity, flags, nplc_min, nplc_max.
\* NPLC values are counted in units of 0.0001 power line cycles (0.0005 is 5,
\* 12.0 is 120000); on that grid the conversion of the requested double to
\* float keeps the order of the values and maps the literals onto themselves.
nplcopts_keithley_dmm6500 == <<
    <<"SR_MQ_VOLTAGE", "SR_MQFLAG_DC", 5, 120000>>,
    <<"SR_MQ_CURRENT", "SR_MQFLAG_DC", 5, 120000>>,
    <<"SR_MQ_RESISTANCE", "0", 5, 120000>>,
    <<"SR_MQ_RESISTANCE", "SR_MQFLAG_FOUR_WIRE", 5, 120000>>,
    <<"SR_MQ_VOLTAGE", "SR_MQFLAG_DC|SR_MQFLAG_DIODE", 5, 120000>> >>

\* models[]: every supported multimeter with its command set and tables.
models == <<
    [vendor |-> "Agilent", model |-> "34405A", cmdset |-> cmdset_agilent,
     mqopts |-> mqopts_agilent_34405a, devopts |-> devopts_generic,
     rangeopts |-> <<>>, nplcopts |-> <<>>],
    [vendor |-> "Agilent", model |-> "34410A", cmdset |-> cmdset_hp,
     mqopts |-> mqopts_agilent_34405a, devopts |-> devopts_generic,
     rangeopts |-> <<>>, nplcopts |-> <<>>],
    [vendor |-> "GW", model |-> "GDM8251A", cmdset |-> cmdset_gwinstek,
     mqopts |-> mqopts_gwinstek_gdm8200a, devopts |-> devopts_generic,
     rangeopts |-> <<>>, nplcopts |-> <<>>],
    [vendor |-> "GW", model |-> "GDM8255A", cmdset |-> cmdset_gwinstek,
     mqopts |-> mqopts_gwinstek_gdm8200a, devopts |-> devopts_generic,
     rangeopts |-> <<>>, nplcopts |-> <<>>],
    [vendor |-> "GWInstek", model |-> "GDM9060", cmdset |-> cmdset_gwinstek_906x,
     mqopts |-> mqopts_gwinstek_gdm906x, devopts |-> devopts_generic,
     rangeopts |-> <<>>, nplcopts |-> <<>>],
    [vendor |-> "GWInstek", model |-> "GDM9061", cmdset |-> cmdset_gwinstek_906x,
     mqopts |-> mqopts_gwinstek_gdm906x, devopts |-> devopts_generic,
     rangeopts |-> <<>>, nplcopts |-> <<>>],
    [vendor |-> "HP", model |-> "34401A", cmdset |-> cmdset_hp,
     mqopts |-> mqopts_agilent_34401a, devopts |-> devopts_generic,
     rangeopts |-> <<>>, nplcopts |-> <<>>],
    [vendor |-> "KEITHLEY INSTRUMENTS INC.", model |-> "34401A", cmdset |-> cmdset_hp,
     mqopts |-> mqopts_agilent_34401a, devopts |-> devopts_generic,
     rangeopts |-> <<>>, nplcopts |-> <<>>],
    [vendor |-> "KEITHLEY INSTRUMENTS", model |-> "MODEL DMM6500", cmdset |-> cmdset_keithley,
     mqopts |-> mqopts_keithley_dmm6500, devopts |-> devopts_keithley,
     rangeopts |-> rangeopts_keithley_dmm6500, nplcopts |-> nplcopts_keithley_dmm6500],
    [vendor |-> "Keysight", model |-> "34465A", cmdset |-> cmdset_agilent,
     mqopts |-> mqopts_agilent_34405a, devopts |-> devopts_generic,
     rangeopts |-> <<>>, nplcopts |-> <<>>],
    [vendor |-> "OWON", model |-> "XDM2041", cmdset |-> cmdset_owon,
     mqopts |-> mqopts_owon_xdm2041, devopts |-> devopts_generic,
     rangeopts |-> <<>>, nplcopts |-> <<>>] >>

\* sr_scpi_cmd_get: the template of the first entry with the code, or "NULL".
sr_scpi_cmd_get(cmdset, code) ==
    LET hit == {i \in 1..Len(cmdset) : cmdset[i][1] = code}
    IN IF hit = {} THEN "NULL"
       ELSE cmdset[CHOOSE i \in hit : \A j \in hit : i <= j][2]

\* A test that takes every command for present.
HasCommand_Always(cmdset, code) == TRUE

\* The test `command && *command` the callers apply to the lookup result.
HasCommand(cmdset, code) ==
    sr_scpi_cmd_get(cmdset, code) # "NULL" /\ sr_scpi_cmd_get(cmdset, code) # ""

----------------------------------------------------------------------------
\* SCPI DMM: driver entry points.

IsDmm == dev = "dmm"
sigmaVars == <<state, samplerate, capture_ratio, trigger, acq_limit>>
DmmCmdset == models[model].cmdset
DmmModel == models[model]

\* Measured quantities (mq, mqflag) an application asks for.
MqPairs == {<<"SR_MQ_VOLTAGE", "SR_MQFLAG_DC">>, <<"SR_MQ_RESISTANCE", "0">>}
NoMq == <<"0", "0">>

\* The (mq, mqflag) pairs of a measured quantity table.
MqOf(mqopts) == {<<mqopts[i][1], mqopts[i][2]>> : i \in 1..Len(mqopts)}

\* Replies to the precision query.
PrecisionReplies == {"+1.0E-05"}

\* The process ended on a fault.
CRASH == "crash"

\* Results of one exchange with the instrument.
CmdResults == {SR_OK, SR_ERR}

\* Where a configuration call meets a failing exchange: nowhere, at the
\* function query, or at the command that follows it.
FailPoints == {"none", "mq", "cmd"}
ResultAt(f, point) == IF f = point THEN SR_ERR ELSE SR_OK

\* Range labels and NPLC values (units of 0.0001) an application asks for.
RangeRequests == {"Auto", "10V"}
NplcRequests == {4, 5, 120000, 120001}

\* Configuration keys an application passes to config_set.
DmmKeys == {"SR_CONF_LIMIT_SAMPLES", "SR_CONF_LIMIT_MSEC", "SR_CONF_MEASURED_QUANTITY",
            "SR_CONF_RANGE", "SR_CONF_ADC_POWERLINE_CYCLES", "SR_CONF_AVERAGING",
            "SR_CONF_AVG_SAMPLES", "SR_CONF_CONN"}

CallOp(op, key, val, ret) == [op |-> op, key |-> key, val |-> val, ret |-> ret]

\* The least element of a non-empty set of table indexes (a linear scan
\* stops at the first match).
FirstOf(S) == CHOOSE i \in S : \A j \in S : i <= j

\* scpi_dmm_get_mq: asks the instrument for its function; `r` is the result
\* of the exchange, `func` the function the instrument is set to.
scpi_dmm_get_mq(func, r) ==
    [ret |-> r,
     mq |-> IF r = SR_OK THEN func ELSE NoMq,
     io |-> <<Scpi("DMM_CMD_QUERY_FUNC")>>
            \o (IF r = SR_OK THEN <<>> ELSE <<Failed("scpi_dmm_get_mq", r)>>)]

\* The protocol helpers that exchange one command of the command set
\* (scpi_dmm_set_range, scpi_dmm_get_range, scpi_dmm_set_nplc, ...): a command
\* the set does not define makes the helper fail with SR_ERR_NA before
\* anything is sent; otherwise the command goes out and `r` is its result.
scpi_dmm_command(cmdset, code, r) ==
    IF ~HasCommand(cmdset, code) THEN [ret |-> SR_ERR_NA, io |-> <<>>]
    ELSE [ret |-> r,
          io |-> <<Scpi(code)>> \o (IF r = SR_OK THEN <<>> ELSE <<Failed(code, r)>>)]

\* Indexes of the range table entries of the pair `mq` with the given label /
\* the given wire token.
RangeByLabel(ropts, mq, label) ==
    {i \in 1..Len(ropts) :
        ropts[i][1] = mq[1] /\ ropts[i][2] = mq[2] /\ ropts[i][4] = label}
RangeByToken(ropts, mq, token) ==
    {i \in 1..Len(ropts) :
        ropts[i][1] = mq[1] /\ ropts[i][2] = mq[2] /\ ropts[i][3] = token}

\* Indexes of the NPLC table entries of the pair `mq`.
NplcOf(nopts, mq) ==
    {i \in 1..Len(nopts) : nopts[i][1] = mq[1] /\ nopts[i][2] = mq[2]}

\* dev_open: sr_scpi_open may fail.
DmmDevOpen ==
    /\ IsDmm
    /\ \E ok \in BOOLEAN :
         /\ opened' = (opened \/ ok)
         /\ call' = Call("dev_open", IF ok THEN SR_OK ELSE SR_ERR)
    /\ io' = <<>>
    /\ UNCHANGED <<buildVars, feed, dmmVars, sigmaVars, sources, limits>>

\* dev_close, lines 537-550: nothing for an inactive device; else the
\* optional local command, then sr_scpi_close, whose result is returned.
DmmCloseEffects(cmdset) ==
    IF HasCommand(cmdset, "DMM_CMD_SETUP_LOCAL")
    THEN <<Scpi("DMM_CMD_SETUP_LOCAL"), <<"scpi", "close", 0>> >>
    ELSE << <<"scpi", "close", 0>> >>

DmmDevClose ==
    /\ IsDmm
    /\ \/ /\ ~opened
          /\ io' = <<>>
          /\ call' = Call("dev_close", SR_OK)
       \/ /\ opened
          /\ \E r \in IoResults :
               /\ call' = Call("dev_close", r)
               /\ io' = DmmCloseEffects(DmmCmdset)
                        \o (IF r = SR_OK THEN <<>> ELSE <<Failed("sr_scpi_close", r)>>)
    /\ opened' = FALSE
    /\ UNCHANGED <<buildVars, feed, dmmVars, sigmaVars, sources, limits>>

\* config_set, lines 677-679: the limit keys store into the device context.
DmmConfigSetLimits(key, data) ==
    /\ limits' = sr_sw_limits_config_set(limits, key, data)
    /\ call' = CallCfg(key, data, SR_OK)
    /\ io' = <<>>
    /\ UNCHANGED <<dmm_func, dmm_range>>

\* config_set, lines 680-687: scpi_dmm_set_mq sends the function; the
\* instrument then measures `mq`, in the automatic range.
DmmConfigSetMq(mq) ==
    /\ \E r \in CmdResults :
         LET x == scpi_dmm_command(DmmCmdset, "DMM_CMD_SETUP_FUNC", r)
         IN /\ call' = CallCfg("SR_CONF_MEASURED_QUANTITY", mq, x.ret)
            /\ io' = x.io
            /\ dmm_func' = IF x.ret = SR_OK THEN mq ELSE dmm_func
            /\ dmm_range' = IF x.ret = SR_OK THEN "AUTO" ELSE dmm_range
    /\ UNCHANGED limits

\* A range setter that hands the label, not the wire token, to the instrument.
DmmSetRange_SendLabel(m, func, range, label, mqr, r) ==
    LET g == scpi_dmm_get_mq(func, mqr)
        set == scpi_dmm_command(m.cmdset, "DMM_CMD_SETUP_RANGE", r)
    IN IF g.ret # SR_OK THEN [ret |-> g.ret, io |-> g.io, range |-> range]
       ELSE IF RangeByLabel(m.rangeopts, g.mq, label) = {}
       THEN [ret |-> SR_ERR_NA, io |-> g.io, range |-> range]
       ELSE [ret |-> set.ret, io |-> g.io \o set.io,
             range |-> IF set.ret = SR_OK THEN label ELSE range]

\* config_set, lines 688-702: SR_CONF_RANGE.  `mqr` is the result of the
\* function query, `r` that of the set command.
DmmSetRange(m, func, range, label, mqr, r) ==
    LET g == scpi_dmm_get_mq(func, mqr)
        hit == RangeByLabel(m.rangeopts, g.mq, label)
        auto == scpi_dmm_command(m.cmdset, "DMM_CMD_SETUP_RANGE_AUTO", r)
        set == scpi_dmm_command(m.cmdset, "DMM_CMD_SETUP_RANGE", r)
    IN IF g.ret # SR_OK THEN
           [ret |-> g.ret, io |-> g.io, range |-> range]
       ELSE IF label = "Auto" THEN
           [ret |-> auto.ret, io |-> g.io \o auto.io,
            range |-> IF auto.ret = SR_OK THEN "AUTO" ELSE range]
       ELSE IF hit # {} THEN
           [ret |-> set.ret, io |-> g.io \o set.io,
            range |-> IF set.ret = SR_OK THEN m.rangeopts[FirstOf(hit)][3] ELSE range]
       ELSE
           [ret |-> SR_ERR_NA, io |-> g.io, range |-> range]

DmmConfigSetRange(label) ==
    /\ \E f \in FailPoints :
         LET x == DmmSetRange(DmmModel, dmm_func, dmm_range, label,
                              ResultAt(f, "mq"), ResultAt(f, "cmd"))
         IN /\ call' = CallCfg("SR_CONF_RANGE", label, x.ret)
            /\ io' = x.io
            /\ dmm_range' = x.range
    /\ UNCHANGED <<limits, dmm_func>>

\* An NPLC check whose bounds are exclusive.
DmmSetNplc_Exclusive(m, func, nplc, mqr, r) ==
    LET g == scpi_dmm_get_mq(func, mqr)
        hit == NplcOf(m.nplcopts, g.mq)
        set == scpi_dmm_command(m.cmdset, "DMM_CMD_SETUP_NPLC", r)
    IN IF g.ret # SR_OK THEN [ret |-> g.ret, io |-> g.io]
       ELSE IF hit = {} THEN [ret |-> SR_ERR_NA, io |-> g.io]
       ELSE IF /\ m.nplcopts[FirstOf(hit)][3] < nplc
               /\ m.nplcopts[FirstOf(hit)][4] > nplc
       THEN [ret |-> set.ret, io |-> g.io \o set.io]
       ELSE [ret |-> SR_ERR_DATA, io |-> g.io]

\* config_set, lines 703-718: SR_CONF_ADC_POWERLINE_CYCLES.
DmmSetNplc(m, func, nplc, mqr, r) ==
    LET g == scpi_dmm_get_mq(func, mqr)
        hit == NplcOf(m.nplcopts, g.mq)
        set == scpi_dmm_command(m.cmdset, "DMM_CMD_SETUP_NPLC", r)
    IN IF g.ret # SR_OK THEN [ret |-> g.ret, io |-> g.io]
       ELSE IF hit = {} THEN [ret |-> SR_ERR_NA, io |-> g.io]
       ELSE IF /\ m.nplcopts[FirstOf(hit)][3] <= nplc
               /\ m.nplcopts[FirstOf(hit)][4] >= nplc
       THEN [ret |-> set.ret, io |-> g.io \o set.io]
       ELSE [ret |-> SR_ERR_DATA, io |-> g.io]

DmmConfigSetNplc(nplc) ==
    /\ \E f \in FailPoints :
         LET x == DmmSetNplc(DmmModel, dmm_func, nplc,
                             ResultAt(f, "mq"), ResultAt(f, "cmd"))
         IN /\ call' = CallCfg("SR_CONF_ADC_POWERLINE_CYCLES", nplc, x.ret)
            /\ io' = x.io
    /\ UNCHANGED <<limits, dmm_func, dmm_range>>

\* config_set, lines 719-730: SR_CONF_AVERAGING and SR_CONF_AVG_SAMPLES.
DmmSetAvg(m, func, code, mqr, r) ==
    LET g == scpi_dmm_get_mq(func, mqr)
        set == scpi_dmm_command(m.cmdset, code, r)
    IN IF g.ret # SR_OK THEN [ret |-> g.ret, io |-> g.io]
       ELSE [ret |-> set.ret, io |-> g.io \o set.io]

DmmConfigSetOther(key) ==
    /\ \E f \in FailPoints :
         LET code == IF key = "SR_CONF_AVERAGING" THEN "DMM_CMD_SETUP_AVG"
                     ELSE "DMM_CMD_SETUP_AVG_COUNT"
             x == DmmSetAvg(DmmModel, dmm_func, code,
                            ResultAt(f, "mq"), ResultAt(f, "cmd"))
         IN /\ call' = CallCfg(key, 1, x.ret)
            /\ io' = x.io
    /\ UNCHANGED <<limits, dmm_func, dmm_range>>

\* config_set, lines 731-733: any other key.
DmmConfigSetUnknown(key) ==
    /\ call' = CallCfg(key, 0, SR_ERR_NA)
    /\ io' = <<>>
    /\ UNCHANGED <<limits, dmm_func, dmm_range>>

\* config_set over the given limit values, measured quantities, range labels
\* and NPLC values.
DmmConfigSetOf(lims, mqs, labels, nplcs) ==
    /\ IsDmm
    /\ opened
    /\ call.ret # CRASH
    /\ \/ \E key \in {"SR_CONF_LIMIT_SAMPLES", "SR_CONF_LIMIT_MSEC"} :
            \E data \in lims : DmmConfigSetLimits(key, data)
       \/ \E mq \in mqs : DmmConfigSetMq(mq)
       \/ \E label \in labels : DmmConfigSetRange(label)
       \/ \E nplc \in nplcs : DmmConfigSetNplc(nplc)
       \/ \E key \in {"SR_CONF_AVERAGING", "SR_CONF_AVG_SAMPLES"} :
            DmmConfigSetOther(key)
       \/ DmmConfigSetUnknown("SR_CONF_CONN")
    /\ UNCHANGED <<buildVars, feed, sigmaVars, opened, sources, precision, start_acq_mq>>

DmmConfigSet == DmmConfigSetOf(LimitRequests, MqPairs, RangeRequests, {5})

\* Keys an application passes to config_get and config_list.
DmmQueryKeys == DmmKeys \cup {"SR_CONF_CONTINUOUS", "SR_CONF_DEVICE_OPTIONS"}

\* The labels of a range table.
LabelsOf(ropts) == {ropts[i][4] : i \in 1..Len(ropts)}

\* What reading the uninitialized range_str can hand to the caller: any
\* string, here a label of the table or something else.
UninitLabels(ropts) == LabelsOf(ropts) \cup {"<indeterminate>"}

\* A range query that asks the instrument before it looks for a fixed range.
DmmGetRange_QueryFirst(m, func, range, mqr, r1, r2) ==
    LET g == scpi_dmm_get_mq(func, mqr)
        a == scpi_dmm_command(m.cmdset, "DMM_CMD_QUERY_RANGE_AUTO", r1)
        fixed == RangeByToken(m.rangeopts, g.mq, "")
    IN IF g.ret # SR_OK THEN
           [ret |-> g.ret, io |-> g.io, val |-> "-", uninit |-> FALSE]
       ELSE IF a.ret # SR_OK THEN
           [ret |-> a.ret, io |-> g.io \o a.io, val |-> "-", uninit |-> FALSE]
       ELSE IF fixed # {} THEN
           [ret |-> SR_OK, io |-> g.io \o a.io,
            val |-> m.rangeopts[FirstOf(fixed)][4], uninit |-> FALSE]
       ELSE
           [ret |-> SR_ERR, io |-> g.io \o a.io, val |-> "-", uninit |-> FALSE]

\* config_get, lines 589-621: SR_CONF_RANGE.  `mqr`, `r1` and `r2` are the
\* results of the function query, of scpi_dmm_get_range_auto and of
\* scpi_dmm_get_range; `range` is what the instrument is set to.  The auto
\* range query yields "AUTO" when the automatic range is on and no string
\* otherwise.  `uninit` says that range_str was read without having been set.
DmmGetRange(m, func, range, mqr, r1, r2) ==
    LET g == scpi_dmm_get_mq(func, mqr)
        fixed == RangeByToken(m.rangeopts, g.mq, "")
        a == scpi_dmm_command(m.cmdset, "DMM_CMD_QUERY_RANGE_AUTO", r1)
        q == scpi_dmm_command(m.cmdset, "DMM_CMD_QUERY_RANGE", r2)
        isauto == range = "AUTO"
        qio == g.io \o a.io \o (IF isauto THEN <<>> ELSE q.io)
        hit == RangeByToken(m.rangeopts, g.mq, range)
    IN IF g.ret # SR_OK THEN
           [ret |-> g.ret, io |-> g.io, val |-> "-", uninit |-> FALSE]
       ELSE IF fixed # {} THEN
           [ret |-> SR_OK, io |-> g.io,
            val |-> m.rangeopts[FirstOf(fixed)][4], uninit |-> FALSE]
       ELSE IF a.ret # SR_OK THEN
           [ret |-> a.ret, io |-> g.io \o a.io, val |-> "-", uninit |-> FALSE]
       ELSE IF ~isauto /\ q.ret # SR_OK THEN
           [ret |-> q.ret, io |-> qio, val |-> "-", uninit |-> FALSE]
       ELSE IF hit # {} THEN
           [ret |-> SR_OK, io |-> qio,
            val |-> m.rangeopts[FirstOf(hit)][4], uninit |-> FALSE]
       ELSE
           [ret |-> SR_OK, io |-> qio, val |-> "-", uninit |-> TRUE]

DmmConfigGetRange ==
    \E f \in FailPoints \cup {"cmd2"} :
       LET x == DmmGetRange(DmmModel, dmm_func, dmm_range, ResultAt(f, "mq"),
                            ResultAt(f, "cmd"), ResultAt(f, "cmd2"))
       IN /\ io' = x.io
          /\ \/ /\ ~x.uninit
                /\ call' = CallOp("config_get", "SR_CONF_RANGE", x.val, x.ret)
             \/ /\ x.uninit
                /\ \E v \in UninitLabels(DmmModel.rangeopts) :
                     call' = CallOp("config_get", "SR_CONF_RANGE", v, SR_OK)
             \/ /\ x.uninit
                /\ call' = CallOp("config_get", "SR_CONF_RANGE", "-", CRASH)

\* config_get, lines 622-634: SR_CONF_ADC_POWERLINE_CYCLES; the result of
\* scpi_dmm_get_nplc is dropped.
DmmGetNplc(m, func, mqr, r) ==
    LET g == scpi_dmm_get_mq(func, mqr)
        q == scpi_dmm_command(m.cmdset, "DMM_CMD_QUERY_NPLC", r)
    IN IF g.ret # SR_OK THEN [ret |-> g.ret, io |-> g.io, val |-> "-"]
       ELSE IF NplcOf(m.nplcopts, g.mq) # {} THEN
           [ret |-> SR_OK, io |-> g.io \o q.io,
            val |-> IF q.ret = SR_OK THEN "nplc" ELSE "<indeterminate>"]
       ELSE [ret |-> SR_ERR_NA, io |-> g.io, val |-> "-"]

\* config_get, lines 635-652: SR_CONF_AVERAGING and SR_CONF_AVG_SAMPLES.
DmmGetAvg(m, func, code, mqr, r) ==
    LET g == scpi_dmm_get_mq(func, mqr)
        q == scpi_dmm_command(m.cmdset, code, r)
    IN IF g.ret # SR_OK THEN [ret |-> g.ret, io |-> g.io, val |-> "-"]
       ELSE IF q.ret # SR_OK THEN [ret |-> q.ret, io |-> g.io \o q.io, val |-> "-"]
       ELSE [ret |-> SR_OK, io |-> g.io \o q.io, val |-> "avg"]

\* config_get, lines 572-655: every key but SR_CONF_RANGE.  The connection id
\* was found when the device was probed.
DmmConfigGetResult(m, key, func, lim, mqr, r) ==
    IF key = "SR_CONF_CONN" THEN [ret |-> SR_OK, io |-> <<>>, val |-> "connection_id"]
    ELSE IF key = "SR_CONF_LIMIT_SAMPLES"
    THEN [ret |-> SR_OK, io |-> <<>>, val |-> lim.limit_samples]
    ELSE IF key = "SR_CONF_LIMIT_MSEC"
    THEN [ret |-> SR_OK, io |-> <<>>, val |-> lim.limit_msec]
    ELSE IF key = "SR_CONF_MEASURED_QUANTITY"
    THEN [ret |-> scpi_dmm_get_mq(func, mqr).ret,
          io |-> scpi_dmm_get_mq(func, mqr).io,
          val |-> scpi_dmm_get_mq(func, mqr).mq]
    ELSE IF key = "SR_CONF_ADC_POWERLINE_CYCLES" THEN DmmGetNplc(m, func, mqr, r)
    ELSE IF key = "SR_CONF_AVERAGING"
    THEN DmmGetAvg(m, func, "DMM_CMD_QUERY_AVG", mqr, r)
    ELSE IF key = "SR_CONF_AVG_SAMPLES"
    THEN DmmGetAvg(m, func, "DMM_CMD_QUERY_AVG_COUNT", mqr, r)
    ELSE [ret |-> SR_ERR_NA, io |-> <<>>, val |-> "-"]

DmmConfigGet ==
    /\ IsDmm
    /\ opened
    /\ call.ret # CRASH
    /\ \/ DmmConfigGetRange
       \/ \E key \in DmmQueryKeys \ {"SR_CONF_RANGE"} :
            \E f \in FailPoints :
               LET x == DmmConfigGetResult(DmmModel, key, dmm_func, limits,
                                           ResultAt(f, "mq"), ResultAt(f, "cmd"))
               IN /\ io' = x.io
                  /\ call' = CallOp("config_get", key, x.val, x.ret)
    /\ UNCHANGED <<buildVars, feed, dmmVars, sigmaVars, opened, sources, limits>>

\* config_list, lines 751-792.
DmmConfigListResult(m, key, func, mqr) ==
    LET g == scpi_dmm_get_mq(func, mqr)
    IN IF key = "SR_CONF_DEVICE_OPTIONS"
       THEN [ret |-> SR_OK, io |-> <<>>, val |-> m.devopts]
       ELSE IF key = "SR_CONF_MEASURED_QUANTITY"
       THEN [ret |-> SR_OK, io |-> <<>>,
             val |-> [i \in 1..Len(m.mqopts) |-> <<m.mqopts[i][1], m.mqopts[i][2]>>]]
       ELSE IF key = "SR_CONF_RANGE"
       THEN IF g.ret # SR_OK THEN [ret |-> g.ret, io |-> g.io, val |-> "-"]
            ELSE [ret |-> SR_OK, io |-> g.io,
                  val |-> {m.rangeopts[i][4] :
                             i \in {j \in 1..Len(m.rangeopts) :
                                      /\ m.rangeopts[j][1] = g.mq[1]
                                      /\ m.rangeopts[j][2] = g.mq[2]}}]
       ELSE [ret |-> SR_ERR_NA, io |-> <<>>, val |-> "-"]

DmmConfigList ==
    /\ IsDmm
    /\ opened
    /\ call.ret # CRASH
    /\ \E key \in DmmQueryKeys : \E mqr \in CmdResults :
         LET x == DmmConfigListResult(DmmModel, key, dmm_func, mqr)
         IN /\ io' = x.io
            /\ call' = CallOp("config_list", key, x.val, x.ret)
    /\ UNCHANGED <<buildVars, feed, dmmVars, sigmaVars, opened, sources, limits>>

\* dev_acquisition_start, lines 807-810: scpi_dmm_get_mq fails; the output
\* parameters, which point into the device context, were cleared.
DmmStartMqFails ==
    /\ \E e \in {SR_ERR, SR_ERR_IO, SR_ERR_NA} :
         /\ call' = Call("dev_acquisition_start", e)
         /\ io' = scpi_dmm_get_mq(dmm_func, e).io
    /\ start_acq_mq' = NoMq
    /\ UNCHANGED <<precision, sources>>

\* dev_acquisition_start, lines 815-829: the precision after the optional
\* query; a failed query (prec = "failed") keeps the cached string.
DmmPrecisionAfter(cmdset, old, prec) ==
    IF HasCommand(cmdset, "DMM_CMD_QUERY_PREC") /\ prec # "failed" THEN prec ELSE old

DmmPrecEffects(cmdset, prec) ==
    <<Scpi("DMM_CMD_QUERY_FUNC")>>
    \o (IF HasCommand(cmdset, "DMM_CMD_QUERY_PREC")
        THEN <<Scpi("DMM_CMD_QUERY_PREC")>>
             \o (IF prec = "failed" THEN <<Failed("DMM_CMD_QUERY_PREC", SR_ERR)>>
                 ELSE <<>>)
        ELSE <<>>)

DmmStartCmdEffects(cmdset, prec) ==
    DmmPrecEffects(cmdset, prec)
    \o (IF HasCommand(cmdset, "DMM_CMD_START_ACQ")
        THEN <<Scpi("DMM_CMD_START_ACQ")>> ELSE <<>>)

\* dev_acquisition_start, lines 831-849: what follows the precision query.
\* `at` names the step that fails ("none": all succeed); adding the source
\* fails when the dispatcher refuses it.
DmmStartTail(cmdset, n, at, prec) ==
    IF at = "start_acq" /\ HasCommand(cmdset, "DMM_CMD_START_ACQ")
    THEN [ret |-> SR_ERR, sources |-> n,
          io |-> DmmStartCmdEffects(cmdset, prec)
                 \o <<Failed("DMM_CMD_START_ACQ", SR_ERR)>>]
    ELSE IF at = "header"
    THEN [ret |-> SR_ERR, sources |-> n,
          io |-> DmmStartCmdEffects(cmdset, prec)
                 \o <<Failed("std_session_send_df_header", SR_ERR)>>]
    ELSE [ret |-> session_source_add(n).ret,
          sources |-> session_source_add(n).n,
          io |-> DmmStartCmdEffects(cmdset, prec) \o <<FeedHeader, SourceAdd>>
                 \o (IF session_source_add(n).ret = SR_OK THEN <<>>
                     ELSE <<Failed("sr_scpi_source_add",
                                   session_source_add(n).ret)>>)]

DmmStartRuns ==
    /\ start_acq_mq' = dmm_func
    /\ \E prec \in PrecisionReplies \cup {"failed"} :
         /\ precision' = DmmPrecisionAfter(DmmCmdset, precision, prec)
         /\ \E at \in {"none", "start_acq", "header"} :
              LET r == DmmStartTail(DmmCmdset, sources, at, prec)
              IN /\ sources' = r.sources
                 /\ io' = r.io
                 /\ call' = Call("dev_acquisition_start", r.ret)

DmmAcquisitionStart ==
    /\ IsDmm
    /\ opened
    /\ \/ DmmStartMqFails
       \/ DmmStartRuns
    /\ UNCHANGED <<buildVars, sigmaVars, opened, limits, dmm_func, dmm_range>>
    /\ Observed

\* A stop that gives up when the stop command cannot be sent.
DmmStopEffects_GiveUp(cmdset, sent) ==
    IF HasCommand(cmdset, "DMM_CMD_STOP_ACQ") /\ sent # SR_OK
    THEN <<Scpi("DMM_CMD_STOP_ACQ"), Failed("DMM_CMD_STOP_ACQ", sent)>>
    ELSE (IF HasCommand(cmdset, "DMM_CMD_STOP_ACQ")
          THEN <<Scpi("DMM_CMD_STOP_ACQ")>> ELSE <<>>)
         \o <<SourceRemove, FeedEnd, <<"free", "precision", 0>> >>

\* dev_acquisition_stop, lines 861-871; `sent` is the result of sending the
\* stop command, which the call drops.
DmmStopEffects(cmdset, sent) ==
    (IF HasCommand(cmdset, "DMM_CMD_STOP_ACQ")
     THEN <<Scpi("DMM_CMD_STOP_ACQ")>>
          \o (IF sent = SR_OK THEN <<>> ELSE <<Failed("DMM_CMD_STOP_ACQ", sent)>>)
     ELSE <<>>)
    \o <<SourceRemove, FeedEnd, <<"free", "precision", 0>> >>

DmmStop ==
    /\ sources' = session_source_remove(sources)
    /\ precision' = "NULL"
    /\ \E sent \in CmdResults : io' = DmmStopEffects(DmmCmdset, sent)

DmmAcquisitionStop ==
    /\ IsDmm
    /\ opened
    /\ DmmStop
    /\ call' = Call("dev_acquisition_stop", SR_OK)
    /\ UNCHANGED <<buildVars, sigmaVars, opened, limits, start_acq_mq, dmm_func,
                   dmm_range>>
    /\ Observed

\* scpi_dmm_receive_data: the receive callback.  It fetches a measurement;
\* when the limits are reached or the fetch fails it stops the acquisition.
DmmReceiveData ==
    /\ IsDmm
    /\ sources > 0
    /\ \/ /\ io' = <<Scpi("DMM_CMD_QUERY_VALUE")>>
          /\ call' = Call("receive_data", "polled")
          /\ UNCHANGED <<sources, precision>>
       \/ /\ DmmStop
          /\ call' = Call("receive_data", "stopped")
    /\ UNCHANGED <<buildVars, sigmaVars, opened, limits, start_acq_mq, dmm_func,
                   dmm_range>>
    /\ Observed

\* probe_device, lines 449-500: the exchanges of the identity probe, and the
\* optional local command that ends it.
DmmProbeEffects(cmdset) ==
    <<Scpi("SCPI_CMD_OPC"), Scpi("SCPI_CMD_IDN")>>
    \o (IF HasCommand(cmdset, "DMM_CMD_SETUP_LOCAL")
        THEN <<Scpi("DMM_CMD_SETUP_LOCAL")>> ELSE <<>>)

----------------------------------------------------------------------------
\* Discovery.

\* The longest list of candidates the transport enumerates.
MaxCandidates == 3

\* Lists of at most n elements of S.
SeqUpTo(S, n) == UNION {[1..k -> S] : k \in 0..n}

\* A connection filter (conn=) selects the candidate at one bus address;
\* the address of a candidate is its position in the enumeration, and 0
\* stands for a scan without filter.
NoConn == 0
ConnSpecs == {NoConn} \cup (1..(MaxCandidates + 1))

\* sr_usb_find: the addresses of the USB devices the filter matches.
sr_usb_find(cands, conn) == {i \in 1..Len(cands) : i = conn}

\* Serial numbers are texts of hexadecimal digits, one character an element.
HexDigits == <<"0", "1", "2", "3", "4", "5", "6", "7", "8", "9",
               "A", "B", "C", "D", "E", "F">>
IsHexDigit(ch) == \E d \in 1..Len(HexDigits) : HexDigits[d] = ch
HexVal(ch) == (CHOOSE d \in 1..Len(HexDigits) : HexDigits[d] = ch) - 1
HexNum(text) ==
    LET F[i \in 0..Len(text)] ==
            IF i = 0 THEN 0 ELSE 16 * F[i - 1] + HexVal(text[i])
    IN F[Len(text)]

\* sr_atol_base(text, &num, &end, 16): converts the leading digits; `rest`
\* is what `end` points at, and no digit at all is an error.  `pre` is
\* num >> 16, taken from all but the last four digits.
sr_atol_base(text) ==
    LET bad == {i \in 1..Len(text) : ~IsHexDigit(text[i])}
        n == IF bad = {} THEN Len(text)
             ELSE (CHOOSE i \in bad : \A j \in bad : i <= j) - 1
    IN [ret |-> IF n = 0 THEN SR_ERR_ARG ELSE SR_OK,
        rest |-> SubSeq(text, n + 1, Len(text)),
        pre |-> IF n <= 4 THEN 0 ELSE HexNum(SubSeq(text, 1, n - 4))]

\* known_vid_pid, lines 86-93.
known_vid_pid(des) ==
    /\ des.idVendor = "USB_VENDOR_ASIX"
    /\ des.idProduct \in {"USB_PRODUCT_SIGMA", "USB_PRODUCT_OMEGA"}

\* Build switch ASIX_WITH_OMEGA: OMEGA support is not implemented.
ASIX_WITH_OMEGA == FALSE

\* A USB device as scan sees it: its descriptor, the results of opening it
\* and of reading its serial number string, and the serial number text.
UsbDevice(vendor, product, serial, open, desc, text) ==
    [des |-> [idVendor |-> vendor, idProduct |-> product, iSerialNumber |-> serial],
     open |-> open, desc |-> desc, serno_txt |-> text]
AsixUnit(text) ==
    UsbDevice("USB_VENDOR_ASIX", "USB_PRODUCT_SIGMA", 3, SR_OK, SR_OK, text)

\* USB devices the bus may hold: SIGMA, SIGMA2, OMEGA, a unit with an
\* unknown serial number prefix, one whose serial number is not a hex number,
\* one whose string descriptor cannot be read, one that cannot be opened,
\* one without serial number index, and a device of another vendor.
SigmaCandidates ==
    {AsixUnit(<<"A", "6", "0", "1", "0", "0", "0", "1">>),
     AsixUnit(<<"A", "6", "0", "2", "0", "0", "0", "2">>),
     UsbDevice("USB_VENDOR_ASIX", "USB_PRODUCT_OMEGA", 3, SR_OK, SR_OK,
               <<"A", "6", "0", "3", "0", "0", "0", "3">>),
     AsixUnit(<<"A", "6", "0", "4", "0", "0", "0", "4">>),
     AsixUnit(<<"A", "6", "0", "1", "0", "0", "0", "Z">>),
     UsbDevice("USB_VENDOR_ASIX", "USB_PRODUCT_SIGMA", 3, SR_OK, SR_ERR_IO, <<>>),
     UsbDevice("USB_VENDOR_ASIX", "USB_PRODUCT_SIGMA", 3, SR_ERR_IO, SR_OK, <<>>),
     UsbDevice("USB_VENDOR_ASIX", "USB_PRODUCT_SIGMA", 0, SR_OK, SR_OK, <<>>),
     UsbDevice("USB_VENDOR_OTHER", "USB_PRODUCT_SIGMA", 3, SR_OK, SR_OK,
               <<"A", "6", "0", "1", "0", "0", "0", "5">>)}

UsbOpen(i) == <<"usb", "open", i>>

\* No device instance / the one device instance a probe hands back.
NoDevice == <<>>
Device(sdi) == <<sdi>>

\* scan, lines 154-240: the body of the loop for the device at address i.
\* The result is the device instance (NoDevice when the loop continues with
\* the next device) and what the bus saw.
SigmaProbe(c, i) ==
    LET n == sr_atol_base(c.serno_txt)
        dev_text == IF n.pre = 42497 THEN "SIGMA"            \* 0xa601
                    ELSE IF n.pre = 42498 THEN "SIGMA2"      \* 0xa602
                    ELSE IF n.pre = 42499 THEN "OMEGA"       \* 0xa603
                    ELSE "NULL"
    IN IF ~known_vid_pid(c.des) THEN [sdi |-> NoDevice, io |-> <<>>]
       ELSE IF c.des.iSerialNumber = 0 THEN [sdi |-> NoDevice, io |-> <<>>]
       ELSE IF c.open # SR_OK THEN [sdi |-> NoDevice, io |-> <<UsbOpen(i)>>]
       ELSE IF c.desc # SR_OK THEN [sdi |-> NoDevice, io |-> <<UsbOpen(i)>>]
       ELSE IF n.ret # SR_OK \/ n.rest # <<>>
       THEN [sdi |-> NoDevice, io |-> <<UsbOpen(i)>>]
       ELSE IF dev_text = "NULL" THEN [sdi |-> NoDevice, io |-> <<UsbOpen(i)>>]
       ELSE IF dev_text = "OMEGA" /\ ~ASIX_WITH_OMEGA
       THEN [sdi |-> NoDevice, io |-> <<UsbOpen(i)>>]
       ELSE [sdi |-> Device([vendor |-> "ASIX", model |-> dev_text,
                             serial_num |-> c.serno_txt, connection_id |-> i,
                             samplerate |-> samplerates[1], capture_ratio |-> 50]),
             io |-> <<UsbOpen(i)>>]

\* A loop that gives up at the first device it cannot use.
SigmaScanLoop_StopAtFailure(cands, conn, conn_devices) ==
    LET F[i \in 0..Len(cands)] ==
            IF i = 0 THEN [devices |-> <<>>, io |-> <<>>, done |-> FALSE]
            ELSE IF F[i - 1].done THEN F[i - 1]
            ELSE IF conn # NoConn /\ i \notin conn_devices THEN F[i - 1]
            ELSE LET r == SigmaProbe(cands[i], i)
                 IN IF r.sdi = NoDevice
                    THEN [devices |-> F[i - 1].devices,
                          io |-> F[i - 1].io \o r.io, done |-> TRUE]
                    ELSE [devices |-> F[i - 1].devices \o r.sdi,
                          io |-> F[i - 1].io \o r.io, done |-> FALSE]
    IN [devices |-> F[Len(cands)].devices, io |-> F[Len(cands)].io]

\* scan, lines 138-241: the loop over the USB devices; a device the filter
\* does not match is passed over, a device that yields no instance too.
SigmaScanLoop(cands, conn, conn_devices) ==
    LET F[i \in 0..Len(cands)] ==
            IF i = 0 THEN [devices |-> <<>>, io |-> <<>>]
            ELSE IF conn # NoConn /\ i \notin conn_devices THEN F[i - 1]
            ELSE LET r == SigmaProbe(cands[i], i)
                 IN [devices |-> F[i - 1].devices \o r.sdi,
                     io |-> F[i - 1].io \o r.io]
    IN F[Len(cands)]

\* A scan that takes a filter without a match for no filter at all.
SigmaScanResult_UnmatchedFilterIgnored(cands, conn) ==
    IF conn # NoConn /\ sr_usb_find(cands, conn) = {}
    THEN SigmaScanLoop(cands, NoConn, {})
    ELSE SigmaScanLoop(cands, conn, sr_usb_find(cands, conn))

\* scan, lines 121-245: a filter that matches nothing ends the scan at once.
SigmaScanResult(cands, conn) ==
    IF conn # NoConn /\ sr_usb_find(cands, conn) = {}
    THEN [devices |-> <<>>, io |-> <<>>]
    ELSE SigmaScanLoop(cands, conn, sr_usb_find(cands, conn))

\* is_compatible, lines 399-416: the index of the first entry of models[]
\* with this vendor and model, 0 when there is none.
is_compatible(vendor, name) ==
    LET hit == {i \in 1..Len(models) :
                   models[i].vendor = vendor /\ models[i].model = name}
    IN IF hit = {} THEN 0 ELSE FirstOf(hit)

\* An instrument as probe_device sees it: whether it replies to the
\* operation complete query, and its identity (NoIdentity when the identity
\* query fails, else vendor (after sr_vendor_alias) and model).
NoIdentity == <<"", "">>
Instrument(opc, idn) == [opc |-> opc, idn |-> idn]
IdentityOf(m) == <<models[m].vendor, models[m].model>>
DmmCandidates ==
    {Instrument(o, idn) :
        o \in BOOLEAN,
        idn \in {NoIdentity, <<"ACME", "X1">>, <<"Agilent", "34405A">>,
                 <<"OWON", "XDM2041">>}}

\* A probe that gives up on an instrument without operation complete reply.
probe_device_NeedsOpc(c, i) ==
    IF ~c.opc \/ c.idn = NoIdentity \/ is_compatible(c.idn[1], c.idn[2]) = 0
    THEN [sdi |-> NoDevice, io |-> <<Scpi("SCPI_CMD_OPC"), Scpi("SCPI_CMD_IDN")>>]
    ELSE [sdi |-> Device([vendor |-> c.idn[1], model |-> c.idn[2],
                          entry |-> is_compatible(c.idn[1], c.idn[2]),
                          connection_id |-> i, no_opc_command |-> FALSE]),
          io |-> DmmProbeEffects(models[is_compatible(c.idn[1], c.idn[2])].cmdset)]

\* probe_device, lines 437-503, for the instrument on connection i: the
\* operation complete probe sets the quirk flag of the connection, then the
\* identity is read and looked up.
probe_device(c, i) ==
    LET no_opc == ~c.opc
        entry == IF c.idn = NoIdentity THEN 0 ELSE is_compatible(c.idn[1], c.idn[2])
    IN IF entry = 0
       THEN [sdi |-> NoDevice,
             io |-> <<Scpi("SCPI_CMD_OPC"), Scpi("SCPI_CMD_IDN")>>]
       ELSE [sdi |-> Device([vendor |-> c.idn[1], model |-> c.idn[2],
                             entry |-> entry, connection_id |-> i,
                             no_opc_command |-> no_opc]),
             io |-> DmmProbeEffects(models[entry].cmdset)]

\* sr_scpi_scan: probe_device for every connection the filter admits; the
\* instances it returns are collected in order.
DmmScanResult(cands, conn) ==
    LET F[i \in 0..Len(cands)] ==
            IF i = 0 THEN [devices |-> <<>>, io |-> <<>>]
            ELSE IF conn # NoConn /\ i # conn THEN F[i - 1]
            ELSE LET r == probe_device(cands[i], i)
                 IN [devices |-> F[i - 1].devices \o r.sdi,
                     io |-> F[i - 1].io \o r.io]
    IN F[Len(cands)]

ScanResult(type, cands, conn) ==
    IF type = "sigma" THEN SigmaScanResult(cands, conn)
    ELSE DmmScanResult(cands, conn)

CallScan(conn) == [op |-> "scan", key |-> "SR_CONF_CONN", val |-> conn, ret |-> SR_OK]

\* scan of the logic analyzer driver.
SigmaScan ==
    /\ IsSigma
    /\ \E conn \in ConnSpecs :
         /\ devices' = SigmaScanResult(candidates, conn).devices
         /\ io' = SigmaScanResult(candidates, conn).io
         /\ call' = CallScan(conn)
    /\ UNCHANGED <<dev, with_trigger, model, no_opc_command, candidates, sigmaVars,
                   dmmVars, opened, sources, limits, feed>>

\* scan of the multimeter driver, lines 505-508.
DmmScan ==
    /\ IsDmm
    /\ \E conn \in ConnSpecs :
         /\ devices' = DmmScanResult(candidates, conn).devices
         /\ io' = DmmScanResult(candidates, conn).io
         /\ call' = CallScan(conn)
    /\ UNCHANGED <<dev, with_trigger, model, no_opc_command, candidates, sigmaVars,
                   dmmVars, opened, sources, limits, feed>>

----------------------------------------------------------------------------
\* The system.

\* The instruments one of which scan has found and accepted: every model
\* replying to the operation complete query, and the Owon, which is known
\* not to (comment at lines 418-422), without a reply.
KnownInstruments ==
    {Instrument(TRUE, IdentityOf(m)) : m \in 1..Len(models)}
    \cup {Instrument(FALSE, IdentityOf(m)) :
             m \in {i \in 1..Len(models) : models[i].vendor = "OWON"}}

\* The state scan leaves behind: one discovered device of either type.
Init ==
    /\ dev \in {"sigma", "dmm"}
    /\ with_trigger \in (IF dev = "sigma" THEN BOOLEAN ELSE {FALSE})
    /\ candidates \in (IF dev = "sigma"
                       THEN {<<AsixUnit(<<"A", "6", "0", "1", "0", "0", "0", "1">>)>>}
                       ELSE {<<c>> : c \in KnownInstruments})
    /\ devices = ScanResult(dev, candidates, NoConn).devices
    /\ Len(devices) = 1
    /\ model = (IF dev = "dmm" THEN devices[1].entry ELSE 0)
    /\ no_opc_command = (IF dev = "dmm" THEN devices[1].no_opc_command ELSE FALSE)
    /\ opened = FALSE
    /\ sources = 0
    /\ feed = Unobserved
    /\ SigmaScanned
    /\ precision = "NULL"
    /\ start_acq_mq = NoMq
    /\ dmm_func \in (IF dev = "dmm" THEN MqPairs ELSE {NoMq})
    /\ dmm_range = "AUTO"
    /\ io = ScanResult(dev, candidates, NoConn).io
    /\ call = NoCall

Next ==
    \/ SigmaDevOpen
    \/ SigmaDevClose
    \/ SigmaConfigSet
    \/ SigmaAcquisitionStop
    \/ SigmaAcquisitionStart
    \/ SigmaReceiveData
    \/ DmmDevOpen
    \/ DmmDevClose
    \/ DmmConfigSet
    \/ DmmAcquisitionStart
    \/ DmmAcquisitionStop
    \/ DmmReceiveData

Spec == Init /\ [][Next]_vars

\* The dispatcher keeps invoking a registered receive callback.
FairSpec == Spec /\ WF_vars(SigmaReceiveData) /\ WF_vars(DmmReceiveData)

----------------------------------------------------------------------------
\* The configuration interface of an open, idle device: config_get,
\* config_set and config_list in any order, over every measured quantity of
\* the model, every range label of its table and the NPLC values around
\* the bounds.

\* Ranges the instrument may be set to when it is opened; "20" is a range
\* the range table does not list.
DeviceRanges == {"AUTO", "20"}

\* The labels the range table holds for the pair `mq`.
LabelsFor(ropts, mq) ==
    {ropts[i][4] : i \in {j \in 1..Len(ropts) :
                             ropts[j][1] = mq[1] /\ ropts[j][2] = mq[2]}}

\* config_set over every measured quantity of a model that has a range table
\* (two of them otherwise), every label the table holds for the current
\* measured quantity, and the NPLC values around the bounds; "2V" is a label
\* no table lists.
DmmConfigSetAny ==
    DmmConfigSetOf({0},
                   IF DmmModel.rangeopts = <<>> THEN MqPairs
                   ELSE MqOf(DmmModel.mqopts),
                   LabelsFor(DmmModel.rangeopts, dmm_func) \cup {"Auto", "2V"},
                   NplcRequests)

ConfigInit ==
    /\ dev \in {"sigma", "dmm"}
    /\ with_trigger \in (IF dev = "sigma" THEN BOOLEAN ELSE {FALSE})
    /\ candidates \in (IF dev = "sigma"
                       THEN {<<AsixUnit(<<"A", "6", "0", "1", "0", "0", "0", "1">>)>>}
                       ELSE {<<Instrument(TRUE, IdentityOf(m))>> : m \in 1..Len(models)})
    /\ devices = ScanResult(dev, candidates, NoConn).devices
    /\ model = (IF dev = "dmm" THEN devices[1].entry ELSE 0)
    /\ no_opc_command = (IF dev = "dmm" THEN devices[1].no_opc_command ELSE FALSE)
    /\ opened = TRUE
    /\ sources = 0
    /\ feed = Unobserved
    /\ SigmaScanned
    /\ precision = "NULL"
    /\ start_acq_mq = NoMq
    /\ dmm_func \in (IF dev = "dmm" THEN MqPairs ELSE {NoMq})
    /\ dmm_range \in (IF dev = "dmm" THEN DeviceRanges ELSE {"AUTO"})
    /\ io = <<>>
    /\ call = Call("dev_open", SR_OK)

ConfigNext ==
    \/ SigmaConfigGet
    \/ SigmaConfigSet
    \/ SigmaConfigList
    \/ DmmConfigGet
    \/ DmmConfigSetAny
    \/ DmmConfigList

ConfigSpec == ConfigInit /\ [][ConfigNext]_vars

----------------------------------------------------------------------------
\* Discovery on its own: scan over every list of at most MaxCandidates
\* candidates, with and without a connection filter.

ScanInit ==
    /\ dev \in {"sigma", "dmm"}
    /\ with_trigger = FALSE
    /\ candidates \in SeqUpTo(IF dev = "sigma" THEN SigmaCandidates ELSE DmmCandidates,
                              MaxCandidates)
    /\ devices = <<>>
    /\ model = 0
    /\ no_opc_command = FALSE
    /\ opened = FALSE
    /\ sources = 0
    /\ feed = Unobserved
    /\ SigmaScanned
    /\ precision = "NULL"
    /\ start_acq_mq = NoMq
    /\ dmm_func = NoMq
    /\ dmm_range = "AUTO"
    /\ io = <<>>
    /\ call = Call("init", SR_OK)

ScanNext ==
    \/ SigmaScan
    \/ DmmScan

ScanSpec == ScanInit /\ [][ScanNext]_vars

----------------------------------------------------------------------------
\* The registers of the logic analyzer: acquisition start from every
\* supported sample rate and from every capture ratio of 0..100, with
\* trigger specifications on low and high channels, on one and on several
\* channels.

\* Rising and falling masks: none; channel 2; channels 0 and 2; falling
\* channel 7; channels 1 and 2; channel 8; channels 3 and 9.
RegisterTriggers == {[risingmask |-> 0, fallingmask |-> 0],
                     [risingmask |-> 4, fallingmask |-> 0],
                     [risingmask |-> 1, fallingmask |-> 4],
                     [risingmask |-> 0, fallingmask |-> 128],
                     [risingmask |-> 6, fallingmask |-> 0],
                     [risingmask |-> 256, fallingmask |-> 0],
                     [risingmask |-> 520, fallingmask |-> 0]}

\* The configurations acquisition starts from: sample rate, capture ratio
\* and build switch.
RegisterConfigs ==
    {<<samplerates[i], 50, b>> : i \in 1..Len(samplerates), b \in BOOLEAN}
    \cup {<<samplerates[1], r, TRUE>> : r \in 0..100}

RegisterStart == SigmaAcquisitionStartOf(RegisterTriggers)

RegisterInit ==
    /\ dev = "sigma"
    /\ \E cfg \in RegisterConfigs :
         /\ samplerate = cfg[1]
         /\ capture_ratio = cfg[2]
         /\ with_trigger = cfg[3]
    /\ candidates = <<AsixUnit(<<"A", "6", "0", "1", "0", "0", "0", "1">>)>>
    /\ devices = ScanResult(dev, candidates, NoConn).devices
    /\ model = 0
    /\ no_opc_command = FALSE
    /\ opened = TRUE
    /\ sources = 0
    /\ feed = Unobserved
    /\ state = "SIGMA_IDLE"
    /\ limits = [limit_msec |-> 0, limit_samples |-> 0]
    /\ trigger = [risingmask |-> 0, fallingmask |-> 0]
    /\ acq_limit = FALSE
    /\ precision = "NULL"
    /\ start_acq_mq = NoMq
    /\ dmm_func = NoMq
    /\ dmm_range = "AUTO"
    /\ io = <<>>
    /\ call = Call("dev_open", SR_OK)

RegisterNext ==
    \/ RegisterStart
    \/ SigmaAcquisitionStop
    \/ SigmaReceiveData

RegisterSpec == RegisterInit /\ [][RegisterNext]_vars

----------------------------------------------------------------------------
\* The datafeed of the multimeter: a session with an observer attached,
\* over dev_open, dev_acquisition_start, dev_acquisition_stop, the receive
\* callback and dev_close in any order, for a model with a stop command
\* and one without.

FeedInit ==
    /\ dev = "dmm"
    /\ with_trigger = FALSE
    /\ candidates \in {<<Instrument(TRUE, IdentityOf(m))>> : m \in {7, 11}}
    /\ devices = ScanResult(dev, candidates, NoConn).devices
    /\ model = devices[1].entry
    /\ no_opc_command = devices[1].no_opc_command
    /\ opened = FALSE
    /\ sources = 0
    /\ feed = NothingFed
    /\ SigmaScanned
    /\ precision = "NULL"
    /\ start_acq_mq = NoMq
    /\ dmm_func \in MqPairs
    /\ dmm_range = "AUTO"
    /\ io = ScanResult(dev, candidates, NoConn).io
    /\ call = NoCall

FeedNext ==
    \/ DmmDevOpen
    \/ DmmDevClose
    \/ DmmAcquisitionStart
    \/ DmmAcquisitionStop
    \/ DmmReceiveData

FeedSpec == FeedInit /\ [][FeedNext]_vars

----------------------------------------------------------------------------
\* Lifecycle states, as the driver's own state shows them.

\* The device is acquiring: the logic analyzer is in SIGMA_CAPTURE or
\* SIGMA_STOPPING; the multimeter (which keeps no state field) has its
\* receive source registered.
Acquiring == IF IsSigma THEN state # "SIGMA_IDLE" ELSE sources > 0
Idle == ~Acquiring

----------------------------------------------------------------------------
\* C1: for the logic analyzer, dev_acquisition_stop in SIGMA_CAPTURE moves the
\* state to SIGMA_STOPPING and leaves the receive callback registered;
\* dev_acquisition_stop in SIGMA_IDLE leaves the state SIGMA_IDLE and ends
\* with no receive callback registered; both return SR_OK.
C1_StopTransitions ==
    [][(IsSigma /\ call'.op = "dev_acquisition_stop") =>
         /\ call'.ret = SR_OK
         /\ (state = "SIGMA_CAPTURE" =>
                state' = "SIGMA_STOPPING" /\ sources' = sources /\ sources' = 1)
         /\ (state = "SIGMA_IDLE" =>
                state' = "SIGMA_IDLE" /\ sources' = 0)]_vars

\* C1 witness: a stop request has just been made during a capture.
C1_Witness ==
    /\ IsSigma
    /\ call.op = "dev_acquisition_stop"
    /\ state = "SIGMA_STOPPING"
    /\ sources = 1

\* C2 (as claimed): from SIGMA_STOPPING, every step other than the receive
\* callback keeps the state SIGMA_STOPPING and the callback registered.
C2_StoppingUntilCallback ==
    [][(IsSigma /\ state = "SIGMA_STOPPING" /\ call'.op # "receive_data") =>
         (state' = "SIGMA_STOPPING" /\ sources' = sources)]_vars

\* C3 (as claimed): after any dev_acquisition_stop the device eventually is
\* idle with no receive callback registered.
C3_StopLeadsToIdle ==
    (call.op = "dev_acquisition_stop") ~> (Idle /\ sources = 0)

C5_StartRejectedWhileStopping ==
    [][(IsSigma /\ state = "SIGMA_STOPPING" /\ call'.op = "dev_acquisition_start") =>
         /\ call'.ret # SR_OK
         /\ \A i \in 1..Len(io') : io'[i][1] = "fail"
         /\ sources' = sources
         /\ state' = "SIGMA_STOPPING"]_vars

\* C6 (as claimed): whenever dev_acquisition_start has returned an error the
\* device is idle and no receive callback is registered.
C6_FailedStartIsIdle ==
    (call.op = "dev_acquisition_start" /\ call.ret # SR_OK) =>
        (Idle /\ sources = 0)

\* C7 (as claimed): while the logic analyzer is acquiring, the stored sample
\* rate, capture ratio and trigger do not change, and a config_set of the
\* sample rate or capture ratio fails and leaves the device context as it was.
C7_FrozenWhileAcquiring ==
    [][(IsSigma /\ state # "SIGMA_IDLE") =>
         /\ (state' # "SIGMA_IDLE" =>
                /\ samplerate' = samplerate
                /\ capture_ratio' = capture_ratio
                /\ trigger' = trigger)
         /\ (/\ call'.op = "config_set"
             /\ call'.key \in {"SR_CONF_SAMPLERATE", "SR_CONF_CAPTURE_RATIO"}) =>
                (call'.ret # SR_OK /\ DeviceContext' = DeviceContext)]_vars

\* C8 (as claimed): a dev_close that succeeds on an acquiring device releases
\* the transport handle and leaves the device idle with no receive callback
\* registered.
C8_CloseStopsAcquisition ==
    [][(Acquiring /\ call'.op = "dev_close" /\ call'.ret = SR_OK) =>
         (~opened' /\ Idle' /\ sources' = 0)]_vars

\* C9: a config_set call that returns an error leaves every field of the
\* device context as it was before the call.
C9_FailedConfigSetKeepsContext ==
    [][(call'.op = "config_set" /\ call'.ret # SR_OK) =>
         DeviceContext' = DeviceContext]_vars

\* C9 witness: a config_set of the sample rate has just been refused.
C9_Witness ==
    /\ call.op = "config_set"
    /\ call.key = "SR_CONF_SAMPLERATE"
    /\ call.ret = SR_ERR_ARG

\* C10 (as claimed): the stored capture ratio is always within 0..100, the
\* post trigger value computed from it fits in one byte, and (in a build that
\* has the key) a capture ratio outside 0..100 is refused with SR_ERR_ARG.
C10_CaptureRatioBounded ==
    /\ capture_ratio \in 0..100
    /\ PostTriggerValue(capture_ratio) <= 255
    /\ (/\ with_trigger
        /\ call.op = "config_set"
        /\ call.key = "SR_CONF_CAPTURE_RATIO"
        /\ call.val \notin 0..100) => call.ret = SR_ERR_ARG

----------------------------------------------------------------------------
\* Observations on the effects of a call.

\* No step of the call handed back an error.
NoFailure(effects) == \A i \in 1..Len(effects) : effects[i][1] # "fail"

\* The command `code` of the command set went out to the instrument.
Sent(effects, code) == \E i \in 1..Len(effects) : effects[i] = Scpi(code)

\* Something went out to the instrument.
Traffic(effects) == \E i \in 1..Len(effects) : effects[i][1] = "scpi"

ErrorCodes == {SR_ERR, SR_ERR_ARG, SR_ERR_NA, SR_ERR_IO, SR_ERR_DATA, SR_ERR_BUG}

\* The capability table of the device, and whether it grants `op` for `key`.
Capabilities == IF IsSigma THEN devopts(with_trigger) ELSE DmmModel.devopts
Granted(opts, key, op) == \E e \in opts : e[1] = key /\ op \in e[2]
Listed(opts, key) == \E e \in opts : e[1] = key
OpOf(callop) ==
    IF callop = "config_get" THEN "GET"
    ELSE IF callop = "config_set" THEN "SET" ELSE "LIST"
ConfigOps == {"config_get", "config_set", "config_list"}

\* What configuration may change: the device context and the instrument.
ConfiguredState == <<DeviceContext, dmm_func, dmm_range>>

\* C11 (as claimed): config_get, config_set and config_list with a key the
\* capability table of the device does not list, or does not grant the
\* operation for, return SR_ERR_NA and change neither the device context nor
\* the instrument.  (SR_CONF_DEVICE_OPTIONS, the key that lists the table
\* itself, is left aside.)
C11_UngrantedKeyNotSupported ==
    [][(/\ call'.op \in ConfigOps
        /\ call'.key # "SR_CONF_DEVICE_OPTIONS"
        /\ ~Granted(Capabilities, call'.key, OpOf(call'.op))) =>
          (call'.ret = SR_ERR_NA /\ ConfiguredState' = ConfiguredState)]_vars

\* C12 (as claimed): a configuration call of the multimeter with a key the
\* model's capability table does not list sends nothing to the instrument.
C12_UnlistedKeyNoTraffic ==
    (/\ IsDmm
     /\ call.op \in ConfigOps
     /\ call.key # "SR_CONF_DEVICE_OPTIONS"
     /\ ~Listed(DmmModel.devopts, call.key)) => ~Traffic(io)

\* The steps of a start whose failure counts: all but the precision query.
StartFailures ==
    {i \in 1..Len(io) : io[i][1] = "fail" /\ io[i][2] # "DMM_CMD_QUERY_PREC"}

\* C13 (as claimed): dev_acquisition_start returns SR_OK only if no step
\* other than the precision query failed, and when it fails it returns the
\* error code of the step that failed.
C13_StartPropagatesErrors ==
    (call.op = "dev_acquisition_start") =>
        /\ (call.ret = SR_OK => StartFailures = {})
        /\ (call.ret # SR_OK =>
              StartFailures # {} /\ call.ret = io[FirstOf(StartFailures)][3])

\* C14 (as claimed): dev_open returns SR_OK only with the transport handle
\* held, and every failure of dev_open is SR_ERR_IO.
C14_OpenFailsWithIoError ==
    (call.op = "dev_open") =>
        /\ (call.ret = SR_OK => opened)
        /\ (call.ret # SR_OK => call.ret = SR_ERR_IO)

\* C15: the multimeter's dev_acquisition_stop returns SR_OK and ends with the
\* receive source removed, the end marker sent and the precision string
\* released, in that order; before them comes nothing but the stop command,
\* sent if the command set has it, whether or not the send succeeds.
C15_DmmStopAlwaysCompletes ==
    (IsDmm /\ call.op = "dev_acquisition_stop") =>
        /\ call.ret = SR_OK
        /\ sources = 0
        /\ precision = "NULL"
        /\ Len(io) >= 3
        /\ SubSeq(io, Len(io) - 2, Len(io))
              = <<SourceRemove, FeedEnd, <<"free", "precision", 0>> >>
        /\ \A i \in 1..(Len(io) - 3) : io[i][2] = "DMM_CMD_STOP_ACQ"
        /\ Sent(io, "DMM_CMD_STOP_ACQ") = HasCommand(DmmCmdset, "DMM_CMD_STOP_ACQ")

\* C15 witness: a stop whose stop command could not be sent.
C15_Witness ==
    /\ IsDmm
    /\ call.op = "dev_acquisition_stop"
    /\ Len(io) = 5
    /\ io[2] = Failed("DMM_CMD_STOP_ACQ", SR_ERR)

\* The command codes some command set defines.
CommandCodes ==
    UNION {{models[m].cmdset[i][1] : i \in 1..Len(models[m].cmdset)} :
             m \in DOMAIN models}

\* C16: the command sets answer "not present" (NULL) for the codes they omit;
\* after probe, start, stop and close nothing has gone out for a code the
\* command set of the device omits, and a call that failed had a step that
\* failed.
C16_AbsentCommandsSkipped ==
    /\ \A code \in {"DMM_CMD_SETUP_LOCAL"} :
         /\ sr_scpi_cmd_get(cmdset_agilent, code) = "NULL"
         /\ sr_scpi_cmd_get(cmdset_hp, code) = "NULL"
         /\ sr_scpi_cmd_get(cmdset_keithley, code) = "NULL"
    /\ sr_scpi_cmd_get(cmdset_gwinstek, "DMM_CMD_STOP_ACQ") = "NULL"
    /\ sr_scpi_cmd_get(cmdset_owon, "DMM_CMD_STOP_ACQ") = "NULL"
    /\ \A code \in {"DMM_CMD_START_ACQ", "DMM_CMD_QUERY_PREC"} :
         /\ sr_scpi_cmd_get(cmdset_owon, code) = "NULL"
         /\ sr_scpi_cmd_get(cmdset_keithley, code) = "NULL"
    /\ (/\ IsDmm
        /\ call.op \in {"scan", "dev_acquisition_start", "dev_acquisition_stop",
                        "dev_close"}) =>
          /\ \A code \in CommandCodes :
               sr_scpi_cmd_get(DmmCmdset, code) = "NULL" => ~Sent(io, code)
          /\ call.ret # SR_OK => ~NoFailure(io)

\* C16 witness: a start that succeeded on a device whose command set has
\* neither a start command nor a precision query.
C16_Witness ==
    /\ IsDmm
    /\ call.op = "dev_acquisition_start"
    /\ call.ret = SR_OK
    /\ sr_scpi_cmd_get(DmmCmdset, "DMM_CMD_START_ACQ") = "NULL"
    /\ sr_scpi_cmd_get(DmmCmdset, "DMM_CMD_QUERY_PREC") = "NULL"
    /\ io = <<Scpi("DMM_CMD_QUERY_FUNC"), FeedHeader, SourceAdd>>

\* C17: config_set(SR_CONF_ADC_POWERLINE_CYCLES, v), the function query having
\* succeeded: without an NPLC table entry for the current measured quantity
\* the result is SR_ERR_NA; with an entry and v below its minimum or above its
\* maximum the result is SR_ERR_DATA; in both cases no set command goes out.
\* With min <= v <= max the set command goes out.
C17_NplcBounds ==
    (/\ IsDmm
     /\ call.op = "config_set"
     /\ call.key = "SR_CONF_ADC_POWERLINE_CYCLES"
     /\ ~(\E i \in 1..Len(io) : io[i][1] = "fail" /\ io[i][2] = "scpi_dmm_get_mq")) =>
        LET hit == NplcOf(DmmModel.nplcopts, dmm_func)
            lo == DmmModel.nplcopts[FirstOf(hit)][3]
            hi == DmmModel.nplcopts[FirstOf(hit)][4]
        IN IF hit = {}
           THEN call.ret = SR_ERR_NA /\ ~Sent(io, "DMM_CMD_SETUP_NPLC")
           ELSE IF call.val < lo \/ call.val > hi
           THEN call.ret = SR_ERR_DATA /\ ~Sent(io, "DMM_CMD_SETUP_NPLC")
           ELSE Sent(io, "DMM_CMD_SETUP_NPLC") /\ call.ret \notin {SR_ERR_NA, SR_ERR_DATA}

\* C17 witness: the exact minimum has just been accepted and sent.
C17_Witness ==
    /\ IsDmm
    /\ call.op = "config_set"
    /\ call.key = "SR_CONF_ADC_POWERLINE_CYCLES"
    /\ call.val = 5
    /\ call.ret = SR_OK
    /\ Sent(io, "DMM_CMD_SETUP_NPLC")

\* C18 (as claimed): config_get(SR_CONF_RANGE) returns an error whenever the
\* range the instrument reports matches no entry of the range table for the
\* current measured quantity, and config_set(SR_CONF_RANGE, label) with a
\* label that matches no entry returns SR_ERR_NA and sends no set command.
C18_RangeLookupFailsExplicitly ==
    /\ (/\ IsDmm
        /\ call.op = "config_get"
        /\ call.key = "SR_CONF_RANGE"
        /\ NoFailure(io)
        /\ RangeByToken(DmmModel.rangeopts, dmm_func, "") = {}
        /\ RangeByToken(DmmModel.rangeopts, dmm_func, dmm_range) = {}) =>
          call.ret \in ErrorCodes
    /\ (/\ IsDmm
        /\ call.op = "config_set"
        /\ call.key = "SR_CONF_RANGE"
        /\ NoFailure(io)
        /\ call.val # "Auto"
        /\ RangeByLabel(DmmModel.rangeopts, dmm_func, call.val) = {}) =>
          (call.ret = SR_ERR_NA /\ ~Sent(io, "DMM_CMD_SETUP_RANGE"))

\* C19: config_get(SR_CONF_RANGE), the function query having succeeded, for a
\* measured quantity whose range table entry has an empty wire token returns
\* the label of that entry and sends neither the auto range query nor the
\* range query.
C19_FixedRangeNoQuery ==
    (/\ IsDmm
     /\ call.op = "config_get"
     /\ call.key = "SR_CONF_RANGE"
     /\ NoFailure(io)
     /\ RangeByToken(DmmModel.rangeopts, dmm_func, "") # {}) =>
        /\ call.ret = SR_OK
        /\ call.val = DmmModel.rangeopts[
                         FirstOf(RangeByToken(DmmModel.rangeopts, dmm_func, ""))][4]
        /\ ~Sent(io, "DMM_CMD_QUERY_RANGE_AUTO")
        /\ ~Sent(io, "DMM_CMD_QUERY_RANGE")

\* C19 witness: the range of the continuity function has just been read.
C19_Witness ==
    /\ IsDmm
    /\ call.op = "config_get"
    /\ call.key = "SR_CONF_RANGE"
    /\ call.ret = SR_OK
    /\ call.val = "1k"
    /\ dmm_func = <<"SR_MQ_CONTINUITY", "0">>

\* C20: after a config_set(SR_CONF_RANGE, label) that succeeded with a label of
\* the range table for the current measured quantity, a config_get(
\* SR_CONF_RANGE) that follows immediately and meets no failing exchange
\* returns SR_OK and the same label.
C20_RangeRoundTrip ==
    [][(/\ IsDmm
        /\ call.op = "config_set"
        /\ call.key = "SR_CONF_RANGE"
        /\ call.ret = SR_OK
        /\ call.val \in LabelsFor(DmmModel.rangeopts, dmm_func)
        /\ call'.op = "config_get"
        /\ call'.key = "SR_CONF_RANGE"
        /\ NoFailure(io')) =>
          (call'.ret = SR_OK /\ call'.val = call.val)]_vars

\* C20 witness: the instrument was sent the 100 mV range and the label has
\* just been read back.
C20_Witness ==
    /\ IsDmm
    /\ call.op = "config_get"
    /\ call.key = "SR_CONF_RANGE"
    /\ call.ret = SR_OK
    /\ call.val = "100mV"
    /\ dmm_range = "0.1"
    /\ dmm_func = <<"SR_MQ_VOLTAGE", "SR_MQFLAG_DC">>

\* C21: probe_device sends the operation complete query before the identity
\* query; an instrument that does not reply to it has the quirk flag of its
\* connection set and is accepted or passed over exactly as if it had
\* replied; no later call on the device clears the flag.
C21_OpcProbedFirstFlagKept ==
    /\ [](IsDmm =>
            /\ (call.op = "scan" =>
                   /\ Len(io) >= 2
                   /\ io[1] = Scpi("SCPI_CMD_OPC")
                   /\ io[2] = Scpi("SCPI_CMD_IDN"))
            /\ (~candidates[1].opc => no_opc_command)
            /\ \A c \in DmmCandidates \cup KnownInstruments :
                 /\ (probe_device(Instrument(FALSE, c.idn), 1).sdi = NoDevice)
                      = (probe_device(Instrument(TRUE, c.idn), 1).sdi = NoDevice)
                 /\ probe_device(Instrument(FALSE, c.idn), 1).sdi # NoDevice =>
                      probe_device(Instrument(FALSE, c.idn), 1).sdi[1].no_opc_command)
    /\ [][no_opc_command => no_opc_command']_vars

\* C21 witness: an instrument without operation complete reply was accepted,
\* opened, and has just finished an acquisition.
C21_Witness ==
    /\ IsDmm
    /\ ~candidates[1].opc
    /\ no_opc_command
    /\ call.op = "dev_acquisition_stop"

\* The device instance scan yields for the candidate at address i when it is
\* the only candidate on the transport (NoDevice when it yields none).
Alone(i) == ScanResult(dev, <<candidates[i]>>, NoConn).devices

\* The addresses a scan with the filter `conn` looks at.
Admitted(conn) == {i \in 1..Len(candidates) : conn = NoConn \/ i = conn}

\* C22: scan returns exactly the candidates (among those the connection
\* filter admits) that yield a device instance when probed alone, each with
\* the instance it yields alone, in enumeration order, however many other
\* candidates fail their probe; scan reports no error.
C22_ScanKeepsEveryGoodCandidate ==
    (call.op = "scan") =>
        LET good == {i \in Admitted(call.val) : Alone(i) # NoDevice}
        IN /\ call.ret = SR_OK
           /\ Len(devices) = Cardinality(good)
           /\ {devices[k].connection_id : k \in 1..Len(devices)} = good
           /\ \A k \in 1..Len(devices) :
                devices[k] = [Alone(devices[k].connection_id)[1]
                                 EXCEPT !.connection_id = devices[k].connection_id]
           /\ \A k, l \in 1..Len(devices) :
                k < l => devices[k].connection_id < devices[l].connection_id

\* C22 witness: of three candidates the first and the last failed their
\* probe and the one between them was returned.
C22_Witness ==
    /\ call.op = "scan"
    /\ call.val = NoConn
    /\ Len(candidates) = 3
    /\ Alone(1) = NoDevice
    /\ Alone(3) = NoDevice
    /\ Len(devices) = 1
    /\ devices[1].connection_id = 2

\* C23: a scan of the logic analyzer driver with a connection filter that
\* matches no candidate returns no device instance, opens no USB device and
\* reports no error.
C23_UnmatchedFilterFindsNothing ==
    (/\ IsSigma
     /\ call.op = "scan"
     /\ call.val # NoConn
     /\ sr_usb_find(candidates, call.val) = {}) =>
        (devices = <<>> /\ io = <<>> /\ call.ret = SR_OK)

\* C23 witness: a SIGMA is on the bus, and a scan for another address has
\* returned nothing.
C23_Witness ==
    /\ IsSigma
    /\ call.op = "scan"
    /\ call.val = MaxCandidates + 1
    /\ Len(candidates) >= 1
    /\ Alone(1) # NoDevice
    /\ devices = <<>>

\* The rates of samplerates[].
SupportedRates == {samplerates[i] : i \in 1..Len(samplerates)}

\* C24: normalizing a normalized rate gives that rate, and a supported rate
\* is its own normalization; a config_set(SR_CONF_SAMPLERATE, r) that
\* succeeds stores the normalization of r (r itself when r is supported), and
\* a config_get(SR_CONF_SAMPLERATE) that follows it returns that value.
C24_SamplerateNormalized ==
    /\ [](\A r \in RateRequests \cup SupportedRates :
            LET n == sigma_normalize_samplerate(r)
            IN /\ (n.ret = SR_OK => sigma_normalize_samplerate(n.have_rate) = n)
               /\ (r \in SupportedRates => (n.ret = SR_OK /\ n.have_rate = r)))
    /\ [][/\ (/\ IsSigma
              /\ call'.op = "config_set"
              /\ call'.key = "SR_CONF_SAMPLERATE"
              /\ call'.ret = SR_OK) =>
                /\ samplerate' = sigma_normalize_samplerate(call'.val).have_rate
                /\ (call'.val \in SupportedRates => samplerate' = call'.val)
          /\ (/\ IsSigma
              /\ call.op = "config_set"
              /\ call.key = "SR_CONF_SAMPLERATE"
              /\ call.ret = SR_OK
              /\ call'.op = "config_get"
              /\ call'.key = "SR_CONF_SAMPLERATE") =>
                /\ call'.ret = SR_OK
                /\ call'.val = sigma_normalize_samplerate(call.val).have_rate]_vars

\* C24 witness: 40 MHz was asked for, and config_get has just reported the
\* 50 MHz it was adjusted to.
C24_Witness ==
    /\ IsSigma
    /\ call.op = "config_get"
    /\ call.key = "SR_CONF_SAMPLERATE"
    /\ call.val = SR_MHZ(50)
    /\ samplerate = SR_MHZ(50)

\* The values a start that reached the registers wrote to the register
\* `name`, in order.
Written(name) ==
    SelectSeq(io, LAMBDA e : e[1] = "reg" /\ e[2] = name)

\* The logic analyzer's dev_acquisition_start got as far as the registers.
SigmaStarted ==
    /\ IsSigma
    /\ call.op = "dev_acquisition_start"
    /\ call.ret = SR_OK

\* C25: for every capture ratio r of 0..100 the post trigger value is
\* floor(r * 255 / 100) and fits the register (0 for 0, 127 for 50, 255 for
\* 100); dev_acquisition_start with such a ratio stored writes the post
\* trigger register once, with that value.
C25_PostTriggerValue ==
    /\ \A r \in 0..100 :
         PostTrigger(r) = (r * 255) \div 100 /\ PostTrigger(r) \in 0..255
    /\ PostTrigger(0) = 0
    /\ PostTrigger(50) = 127
    /\ PostTrigger(100) = 255
    /\ (SigmaStarted /\ capture_ratio \in 0..100) =>
          Written("WRITE_POST_TRIGGER")
             = <<Reg("WRITE_POST_TRIGGER", (capture_ratio * 255) \div 100)>>

\* C25 witness: a start with the capture ratio 99 has written 252.
C25_Witness ==
    /\ SigmaStarted
    /\ capture_ratio = 99
    /\ Written("WRITE_POST_TRIGGER") = <<Reg("WRITE_POST_TRIGGER", 252)>>

\* The channel disable mask in the clock select bytes `b`, and the number of
\* channels a mask leaves enabled.
DisabledMask(b) == b[3] + 256 * b[4]
EnabledChannels(mask) ==
    Cardinality({ch \in 0..(ChannelCount - 1) : Bit(mask, ch) = 0})

\* C26: dev_acquisition_start writes the clock select register once; the
\* channel disable mask in it leaves 8 of the 16 channels enabled at
\* 100 MHz, 4 at 200 MHz, and is 0 at every rate up to 50 MHz.
C26_ChannelMask ==
    SigmaStarted =>
        /\ Len(Written("WRITE_CLOCK_SELECT")) = 1
        /\ LET mask == DisabledMask(Written("WRITE_CLOCK_SELECT")[1][3])
           IN /\ (samplerate = SR_MHZ(100) => EnabledChannels(mask) = 8)
              /\ (samplerate = SR_MHZ(200) => EnabledChannels(mask) = 4)
              /\ (samplerate <= SR_MHZ(50) => mask = 0)

\* C26 witness: a start at 200 MHz has disabled all but four channels.
C26_Witness ==
    /\ SigmaStarted
    /\ samplerate = SR_MHZ(200)
    /\ EnabledChannels(DisabledMask(Written("WRITE_CLOCK_SELECT")[1][3])) = 4

\* C27: 50 MHz is a whole multiple of every supported rate up to 50 MHz and
\* the divider 50 MHz / rate - 1 lies in 0..255; the rate config_set leaves
\* stored is always a supported one, whatever was asked for, and
\* dev_acquisition_start at a rate up to 50 MHz writes that divider
\* untruncated.
C27_DividerFitsByte ==
    /\ \A rate \in SupportedRates :
         rate <= SR_MHZ(50) =>
            /\ SR_MHZ(50) % rate = 0
            /\ (SR_MHZ(50) \div rate) - 1 \in 0..255
    /\ IsSigma => samplerate \in SupportedRates
    /\ (SigmaStarted /\ samplerate <= SR_MHZ(50)) =>
          /\ Len(Written("WRITE_CLOCK_SELECT")) = 1
          /\ Written("WRITE_CLOCK_SELECT")[1][3][2] = (SR_MHZ(50) \div samplerate) - 1

\* C27 witness: 40 MHz was asked for, 50 MHz stored, and a start has
\* written the divider 0.
C27_Witness ==
    /\ SigmaStarted
    /\ samplerate = SR_MHZ(50)
    /\ Written("WRITE_CLOCK_SELECT")[1][3][2] = 0

\* The combined trigger mask of the device context and its lowest channel.
TriggerMask == MaskOr(trigger.risingmask, trigger.fallingmask)
LowestChannel(mask) ==
    CHOOSE k \in 0..(ChannelCount - 1) :
        Bit(mask, k) = 1 /\ \A j \in 0..(k - 1) : Bit(mask, j) = 0

\* The trigger select value a start leaves in the register: the last one
\* it wrote.
FinalTriggerSelect ==
    Written("WRITE_TRIGGER_SELECT2")[Len(Written("WRITE_TRIGGER_SELECT2"))][3]

\* C28 (as claimed): after a dev_acquisition_start at 100 MHz or above with
\* a non-empty trigger mask whose lowest set bit is channel k, the pin field
\* (the low three bits) of the trigger select value is k.
C28_TriggerPinIsLowestChannel ==
    (SigmaStarted /\ samplerate >= SR_MHZ(100) /\ TriggerMask # 0) =>
        FinalTriggerSelect % 8 = LowestChannel(TriggerMask)

\* C29 (as claimed): after a dev_acquisition_start with an empty trigger
\* specification the trigger select value is 0, the single-pin mode was not
\* entered and no lookup table was written.
C29_EmptyTriggerIsFreeRun ==
    (SigmaStarted /\ TriggerMask = 0) =>
        /\ FinalTriggerSelect = 0
        /\ \A i \in 1..Len(io) : io[i] # Lut
        /\ \A i \in 1..Len(io) : io[i] # Reg("WRITE_TRIGGER_SELECT2", 129)

\* The steps of the multimeter's dev_acquisition_start in the order the
\* specification gives them, and the place of a step in that order.
StartOrder == <<Scpi("DMM_CMD_QUERY_FUNC"), Scpi("DMM_CMD_QUERY_PREC"),
                Scpi("DMM_CMD_START_ACQ"), SourceAdd, FeedHeader>>
PlaceOf(step) == CHOOSE k \in 1..Len(StartOrder) : StartOrder[k] = step

\* The steps a call took, without the failure markers.
Steps == SelectSeq(io, LAMBDA e : e[1] # "fail")

\* C30 (as claimed): the steps of the multimeter's dev_acquisition_start
\* come in the order function query, precision query, start command,
\* registration of the receive source, start-of-stream marker; the marker
\* is never sent before the source is registered; a failed precision query
\* alone does not make the call fail.
C30_DmmStartOrder ==
    (IsDmm /\ call.op = "dev_acquisition_start") =>
        /\ \A i, j \in 1..Len(Steps) :
             i < j => PlaceOf(Steps[i]) < PlaceOf(Steps[j])
        /\ \A j \in 1..Len(Steps) :
             Steps[j] = FeedHeader => \E i \in 1..(j - 1) : Steps[i] = SourceAdd
        /\ StartFailures = {} => call.ret = SR_OK

\* The register and lookup table writes of the most recent call, in order.
RegisterWrites == SelectSeq(io, LAMBDA e : e[1] = "reg" \/ e[1] = "lut")

\* The most recent call wrote the trigger select, clock select and post
\* trigger registers and then, as its last register write, armed the mode
\* register with reset and SDRAM write enable, and with trigger enable
\* exactly when the build has trigger support.
Armed ==
    LET w == RegisterWrites
        n == Len(w)
    IN /\ n > 0
       /\ w[n] = Reg("WRITE_MODE",
                     IF with_trigger
                     THEN {"WMR_TRGRES", "WMR_SDRAMWRITEEN", "WMR_TRGEN"}
                     ELSE {"WMR_TRGRES", "WMR_SDRAMWRITEEN"})
       /\ \A i \in 1..(n - 1) : w[i][2] # "WRITE_MODE"
       /\ \A name \in {"WRITE_TRIGGER_SELECT2", "WRITE_CLOCK_SELECT",
                        "WRITE_POST_TRIGGER"} :
            \E i \in 1..(n - 1) : w[i][2] = name

\* C31: the logic analyzer becomes SIGMA_CAPTURE only in a
\* dev_acquisition_start call that has written the trigger select, clock
\* select and post trigger registers and then armed the mode register
\* (reset, SDRAM write enable, trigger enable exactly when trigger support
\* is compiled in); the mode register write is the last register write of
\* every start that reaches the registers.
C31_ArmedBeforeCapturing ==
    /\ [](SigmaStarted => (Armed /\ state = "SIGMA_CAPTURE"))
    /\ [][(IsSigma /\ state # "SIGMA_CAPTURE" /\ state' = "SIGMA_CAPTURE")
            => (call'.op = "dev_acquisition_start" /\ Armed')]_vars

\* C31 witness: a build without trigger support went from idle to capturing
\* at 200 kHz; the lookup table and six registers were written, the mode
\* register last and without trigger enable.
C31_Witness ==
    /\ SigmaStarted
    /\ state = "SIGMA_CAPTURE"
    /\ ~with_trigger
    /\ samplerate = SR_KHZ(200)
    /\ Len(RegisterWrites) = 7
    /\ RegisterWrites[2] = Lut
    /\ RegisterWrites[7] = Reg("WRITE_MODE", {"WMR_TRGRES", "WMR_SDRAMWRITEEN"})

\* The most recent call built and wrote the trigger lookup table, and left
\* both LED select bits in the trigger select register.
LutStrategy ==
    /\ \E i \in 1..Len(io) : io[i] = Lut
    /\ FinalTriggerSelect = 192

\* The most recent call entered the 100/200 MHz trigger mode and left the
\* single-pin encoding (LED select 1, edge flag, pin) in the trigger select
\* register.
PinStrategy ==
    /\ \E i \in 1..Len(io) : io[i] = Reg("WRITE_TRIGGER_SELECT2", 129)
    /\ FinalTriggerSelect \div 16 = 8

\* C32: a dev_acquisition_start with a non-empty trigger specification
\* builds and writes the lookup table exactly when the stored sample rate
\* is at most 50 MHz and uses the single-pin encoding exactly when it is at
\* least 100 MHz; every sample rate config_set can leave stored is in one
\* of the two tiers, so exactly one of the two strategies is applied.
C32_OneTriggerStrategy ==
    /\ IsSigma => (samplerate <= SR_MHZ(50)) # (samplerate >= SR_MHZ(100))
    /\ (SigmaStarted /\ TriggerMask # 0) =>
          /\ LutStrategy <=> samplerate <= SR_MHZ(50)
          /\ PinStrategy <=> samplerate >= SR_MHZ(100)
          /\ LutStrategy # PinStrategy
          /\ (\E i \in 1..Len(io) : io[i] = Lut)
               # (\E i \in 1..Len(io) : io[i] = Reg("WRITE_TRIGGER_SELECT2", 129))

\* C32 witness: 50 MHz was stored through config_set and a start with a
\* trigger on channel 2 has written the lookup table and not entered the
\* single-pin mode.
C32_Witness ==
    /\ SigmaStarted
    /\ samplerate = SR_MHZ(50)
    /\ TriggerMask = 4
    /\ LutStrategy
    /\ ~PinStrategy

\* C33 (as claimed): after a dev_acquisition_start at 100 MHz or above with
\* a non-empty trigger mask, the falling edge flag (bit 3) of the trigger
\* select value is set exactly when the selected channel, the lowest one
\* of the combined mask, is in the falling mask.
C33_FallingFlagOfSelectedChannel ==
    (SigmaStarted /\ samplerate >= SR_MHZ(100) /\ TriggerMask # 0) =>
        (Bit(FinalTriggerSelect, 3) = 1
            <=> Bit(trigger.fallingmask, LowestChannel(TriggerMask)) = 1)

\* No (quantity, flag) pair heads two entries of `table`.
UniquePairs(table) ==
    \A i, j \in 1..Len(table) :
        (table[i][1] = table[j][1] /\ table[i][2] = table[j][2]) => i = j

\* C34 (as claimed): in the measured quantity table and the NPLC table of
\* every entry of models[], and so of the model of the device at hand, no
\* (quantity, flag) pair occurs in more than one entry.
C34_TablePairsUnique ==
    IsDmm =>
        /\ UniquePairs(models[model].mqopts)
        /\ UniquePairs(models[model].nplcopts)

C36_EndMarkersMatchHeaders ==
    (IsDmm /\ feed.observed) =>
        /\ feed.ends <= feed.headers
        /\ feed.headers > 0 => feed.since <= 1

====
